---- MODULE Spec2Model ----
(***************************************************************************)
(* Cache-first shot-data orchestration of nba-shot-viz: the Streamlit      *)
(* script of app.py (Charts, Compare and Predictions tabs), its background *)
(* refresh threads, get_or_fetch_shots / _call_shotchart / fetch_and_cache *)
(* of src/fetch_shots.py and the helpers of src/util.py.                   *)
(*                                                                         *)
(* Spec is the app.  Time is counted in whole minutes.  One player of the  *)
(* Charts loop is a sequence of steps, one per look at the shared state:   *)
(* is_stale and the arm taken (lines 221-240), the second look at the file *)
(* (line 245), the network call of get_or_fetch_shots and its write, the   *)
(* size check (257), the read of plot_plotly (266), the status row         *)
(* (277-280) and the two refresh notices (283, 285).  A write of a CSV is  *)
(* two steps: open(path, "w") leaves the file with no byte, and the bytes  *)
(* reach it when the handle is closed (the frames of the model fit its     *)
(* buffer); readers and other writers run in between.  A refresh thread is *)
(* the return of its network call with the open, the write with the return *)
(* of get_or_fetch_shots (line 169), and the marker (line 170).  The       *)
(* Compare loop has the arm, the fetch, the size check and the read; the   *)
(* Predictions loop the size check, read_csv, plot_plotly and the status   *)
(* row.  The threads and the clock run between the steps.  Rendering       *)
(* (plot_plotly, st.components) is taken to succeed on every CSV that      *)
(* read_csv can read.                                                      *)
(*                                                                         *)
(* The command-line programs run beside the app, one at a time, each a     *)
(* sequence of steps of its own.  SpecTools is the live Charts tab beside  *)
(* the callers of get_or_fetch_shots, refresh_cache and auto_refresh of    *)
(* tools/.  SpecFigures is the Charts tab showing what is on disk beside   *)
(* seed_cache_from_url of tools/, src/cli.py and src/compare.py, which     *)
(* write data/raw, and the writers of outputs/figures: the last two and    *)
(* update_preview.py.                                                      *)
(*                                                                         *)
(* SpecFetch, SpecFresh, SpecKey and SpecWrite exercise single functions   *)
(* on their own (the variable unit), with the app at rest: the fetch       *)
(* functions over every course of the five attempts, file_age_minutes and  *)
(* is_stale, csv_path_for on spelled-out text, and DataFrame.to_csv        *)
(* writing line by line at the byte offset of its handle, with a           *)
(* concurrent reader.                                                      *)
(*                                                                         *)
(* SpecReachable is the app serving live Charts requests while the         *)
(* upstream answers the background refreshes, with the refresh threads     *)
(* scheduled fairly.  SpecStatus follows the refresh markers and status    *)
(* rows of one player in two seasons; SpecAuto exercises                   *)
(* refresh_player_data and refresh_all_data of tools/auto_refresh.py.      *)
(***************************************************************************)
EXTENDS Integers, Sequences, FiniteSets, TLC

\* ------------------------------------------------------------------ bounds
MaxTime == 2
MaxBg == 2

\* ------------------------------------------------------- program constants
max_attempts == 5
\* is_stale(csv_path, max_minutes=60), line 92 of tools/auto_refresh.py
auto_max_minutes == 60
COURT_X_MIN == -250
COURT_X_MAX == 250
COURT_Y_MIN == 0
COURT_Y_MAX == 470

\* ------------------------------------------------------------------ inputs
Sessions == {"s1"}
Players == {"Stephen Curry", "Nobody"}
\* the names nba_api's static player list knows
KnownPlayers == {"Stephen Curry"}
Seasons == {"2023-24"}
SeasonTypes == {"Regular Season"}
FreshChoices == {1}
PlayerLists == {<<>>, <<"Stephen Curry">>, <<"Nobody">>, <<"Stephen Curry", "Nobody">>}

Shot(x, y, made) == [LOC_X |-> x, LOC_Y |-> y, SHOT_MADE_FLAG |-> made]
\* what ShotChartDetail can answer with: data frames of zero or more rows
OldData == <<Shot(10, 20, 1)>>
DataOut == <<Shot(300, 100, 0)>>
DataMixed == <<Shot(-250, 470, 0), Shot(0, 471, 1)>>
Frames == {<<>>, DataOut, DataMixed}
\* two answers to two refreshes of one player that follow each other closely
DataTwo == <<Shot(-250, 470, 0), Shot(0, 100, 1)>>
DataFlip == <<Shot(-250, 470, 1)>>
\* what one attempt of the external call can end with
FailKinds == {"ReadTimeout", "ValueError"}

Max(a, b) == IF a >= b THEN a ELSE b

\* ------------------------------------------------------------- src/util.py
slugify(s) ==
    CASE s = "Stephen Curry" -> "stephen-curry"
      [] s = "Nobody" -> "nobody"
      [] s = "Regular Season" -> "regular-season"
      [] OTHER -> s

csv_path_for(player, season, season_type) ==
    <<"data/raw", slugify(player), season, slugify(season_type), ".csv">>

Keys == {csv_path_for(p, se, st) : p \in Players, se \in Seasons, st \in SeasonTypes}

\* A file of data/raw: head is the first line it begins with ("none": the
\* file has no byte; "full": the header of an enhanced frame; "short": the
\* three column names of the empty CSV of fetch_and_cache; "other": a first
\* line that is no header of a table of shots), under the longest first line
\* written to it since it was opened last, rows the records behind the first
\* line, mtime its write time
Absent ==
    [exists |-> FALSE, head |-> "none", under |-> "none", rows |-> <<>>, mtime |-> 0]
File(head, rows, t) ==
    [exists |-> TRUE, head |-> head, under |-> head, rows |-> rows, mtime |-> t]

\* the first lines by their number of bytes: a text that is no table of shots
\* is shorter than a header, and the header of the three expected columns is
\* shorter than the header of a fetched frame
HeadLen(head) ==
    CASE head = "none" -> 0 [] head = "other" -> 1 [] head = "short" -> 2 [] head = "full" -> 3

AgeNone == -1

\* a missing file is given the age 0 instead of None
FileAgeAt_MissingIsZero(fs, path, t) ==
    IF ~fs[path].exists THEN 0 ELSE Max(0, t - fs[path].mtime)

\* file_age_minutes over a file system fs at time t (None is AgeNone)
FileAgeAt(fs, path, t) ==
    IF ~fs[path].exists THEN AgeNone ELSE Max(0, t - fs[path].mtime)

IsStaleAt(fs, path, max_minutes, t) ==
    LET age == FileAgeAt(fs, path, t)
    IN  IF age = AgeNone THEN TRUE ELSE age > max_minutes

\* st_size, counted in lines: 0 for a file that was opened for writing and
\* holds no byte yet, else the first line and the rows
StSize(entry) == IF entry.head = "none" THEN 0 ELSE 1 + Len(entry.rows)

\* pd.read_csv answers with a frame of shots: the file is there and begins
\* with a header that nothing of a longer first line follows; a file without
\* a byte raises EmptyDataError, a missing one FileNotFoundError, and a text
\* that is no table of shots fails in the caller
Readable(entry) ==
    entry.exists /\ entry.head \in {"full", "short"} /\ entry.under = entry.head

\* open(path, "w"), the first thing DataFrame.to_csv and Path.write_text do:
\* the file is there, without a byte, written now
OpenW(fs, path, t) == [fs EXCEPT ![path] = File("none", <<>>, t)]

\* The bytes of a first line and of rows written from the start of a file
\* that another handle may have filled since this one was opened: they
\* replace what lies under them, and what lies behind them stays.  The
\* records of the model at the same place of a frame have the same number of
\* bytes, so whole rows are replaced.  The file begins with the first line
\* written last (head); a first line shorter than the longest one written
\* since the file was opened (under) leaves the remainder of that one as a
\* line of the file, and one at least as long covers it.
Overlay(entry, head, rows) ==
    [exists |-> TRUE,
     head |-> head,
     under |-> IF HeadLen(head) >= HeadLen(entry.under) THEN head ELSE entry.under,
     rows |-> rows \o SubSeq(entry.rows, Len(rows) + 1, Len(entry.rows)),
     mtime |-> entry.mtime]

\* the write keeps the write time the file had
FlushW_KeepsMtime(fs, path, head, rows, t) ==
    [fs EXCEPT ![path] = Overlay(fs[path], head, rows)]

\* the handle is closed: its buffer, the whole text, is written at offset 0
FlushW(fs, path, head, rows, t) ==
    [fs EXCEPT ![path] = [Overlay(fs[path], head, rows) EXCEPT !.mtime = t]]

\* DataFrame.to_csv(path) and Path(path).write_text(text) with nothing running
\* in between
to_csv(fs, path, head, rows, t) == FlushW(OpenW(fs, path, t), path, head, rows, t)

\* ------------------------------------------------------ src/fetch_shots.py
resolve_player_id(player) == IF player \in KnownPlayers THEN "id" ELSE "ValueError"

Abs(x) == IF x < 0 THEN -x ELSE x

\* enhance_shot_data: the derived columns (those that need no square root)
enhance_shot_data(df) ==
    [i \in 1..Len(df) |->
        [LOC_X |-> df[i].LOC_X, LOC_Y |-> df[i].LOC_Y,
         SHOT_MADE_FLAG |-> df[i].SHOT_MADE_FLAG,
         IS_PAINT |-> (Abs(df[i].LOC_X) <= 80 /\ df[i].LOC_Y <= 190),
         IS_CORNER_3 |-> (Abs(df[i].LOC_X) >= 220 /\ df[i].LOC_Y <= 140)]]

NoneDf == [none |-> TRUE, rows |-> <<>>]
SomeDf(rows) == [none |-> FALSE, rows |-> rows]

\* what one attempt of the external call ends with
Raised(name) == [exc |-> name, frame |-> <<>>]
Returned(frame) == [exc |-> "", frame |-> frame]
Retryable == {"ReadTimeout", "ConnectionError", "HTTPError"}

\* the loop gives up at the first exception instead of trying again
CallLoop_NoRetry(outs, attempt) ==
    LET o == outs[attempt]
    IN  IF o.exc = "" /\ Len(o.frame) > 0
        THEN [df |-> SomeDf(enhance_shot_data(o.frame)), calls |-> attempt]
        ELSE [df |-> NoneDf, calls |-> attempt]

\* _call_shotchart over the outcomes of its attempts: outs[a] is what attempt
\* a of the external call ends with (an exception or a data frame).
RECURSIVE CallLoop(_, _)
CallLoop(outs, attempt) ==
    IF attempt > max_attempts THEN [df |-> NoneDf, calls |-> max_attempts]
    ELSE LET o == outs[attempt]
         IN  IF o.exc = ""
             THEN IF Len(o.frame) = 0
                  THEN [df |-> NoneDf, calls |-> attempt]
                  ELSE [df |-> SomeDf(enhance_shot_data(o.frame)), calls |-> attempt]
             ELSE IF o.exc \in Retryable
                  THEN IF attempt = max_attempts
                       THEN [df |-> NoneDf, calls |-> attempt]
                       ELSE CallLoop(outs, attempt + 1)
                  ELSE IF attempt = max_attempts
                       THEN [df |-> NoneDf, calls |-> attempt]
                       ELSE CallLoop(outs, attempt + 1)

_call_shotchart(outs) == CallLoop(outs, 1)

InBounds(r) ==
    /\ r.LOC_Y >= COURT_Y_MIN /\ r.LOC_Y <= COURT_Y_MAX
    /\ r.LOC_X >= COURT_X_MIN /\ r.LOC_X <= COURT_X_MAX

\* df[(LOC_Y >= 0) & (LOC_Y <= 470) & LOC_X.between(-250, 250)]
CourtFilter(rows) == SelectSeq(rows, InBounds)

\* how many attempts of a call fail before one answers: none, the most that
\* leave an attempt to answer, and all of them
FailCounts == {0, max_attempts - 1, max_attempts}

\* the attempts' outcomes: nfail failures of kind fk, then the frame fin
Outs(nfail, fk, fin) ==
    [a \in 1..max_attempts |-> IF a <= nfail THEN Raised(fk) ELSE Returned(fin)]

\* the new rows are appended to the rows the file had
get_or_fetch_shots_Merges(fs, player, season, season_type, force_refresh, outs, t) ==
    LET csv_path == csv_path_for(player, season, season_type)
        cached == [none |-> ~fs[csv_path].exists, path |-> csv_path]
        r == _call_shotchart(outs)
    IN  IF ~force_refresh /\ fs[csv_path].exists
        THEN [res |-> cached, fs |-> fs, calls |-> 0, ok |-> FALSE, fetched |-> FALSE]
        ELSE IF resolve_player_id(player) = "ValueError" \/ r.df.none \/ Len(r.df.rows) = 0
        THEN [res |-> cached, fs |-> fs, calls |-> 0, ok |-> FALSE, fetched |-> TRUE]
        ELSE [res |-> [none |-> FALSE, path |-> csv_path],
              fs |-> [fs EXCEPT ![csv_path] =
                        File("full", fs[csv_path].rows \o CourtFilter(r.df.rows), t)],
              calls |-> r.calls, ok |-> TRUE, fetched |-> TRUE]

\* a failed fetch returns csv_path without looking whether the file exists
get_or_fetch_shots_PathOnFailure(fs, player, season, season_type, force_refresh, outs, t) ==
    LET csv_path == csv_path_for(player, season, season_type)
        r == _call_shotchart(outs)
    IN  IF (~force_refresh /\ fs[csv_path].exists)
           \/ resolve_player_id(player) = "ValueError" \/ r.df.none \/ Len(r.df.rows) = 0
        THEN [res |-> [none |-> FALSE, path |-> csv_path], fs |-> fs, calls |-> 0,
              ok |-> FALSE, fetched |-> ~(~force_refresh /\ fs[csv_path].exists)]
        ELSE [res |-> [none |-> FALSE, path |-> csv_path],
              fs |-> to_csv(fs, csv_path, "full", CourtFilter(r.df.rows), t),
              calls |-> r.calls, ok |-> TRUE, fetched |-> TRUE]

\* get_or_fetch_shots, from the state fs of data/raw at time t, with outs the
\* outcomes of the attempts of the external call: the returned path (or
\* None), data/raw after it, the number of external calls, and whether the
\* fetch brought rows.
get_or_fetch_shots(fs, player, season, season_type, force_refresh, outs, t) ==
    LET csv_path == csv_path_for(player, season, season_type)
        cached == IF fs[csv_path].exists THEN [none |-> FALSE, path |-> csv_path]
                  ELSE [none |-> TRUE, path |-> csv_path]
    IN  IF ~force_refresh /\ fs[csv_path].exists
        THEN [res |-> cached, fs |-> fs, calls |-> 0, ok |-> FALSE, fetched |-> FALSE]
        ELSE IF resolve_player_id(player) = "ValueError"
        THEN [res |-> cached, fs |-> fs, calls |-> 0, ok |-> FALSE, fetched |-> TRUE]
        ELSE LET r == _call_shotchart(outs)
             IN  IF r.df.none \/ Len(r.df.rows) = 0
                 THEN [res |-> cached, fs |-> fs, calls |-> r.calls, ok |-> FALSE,
                       fetched |-> TRUE]
                 ELSE [res |-> [none |-> FALSE, path |-> csv_path],
                       fs |-> to_csv(fs, csv_path, "full", CourtFilter(r.df.rows), t),
                       calls |-> r.calls, ok |-> TRUE, fetched |-> TRUE]

\* fetch_and_cache (lines 176-202): resolve_player_id raises to the caller;
\* when nothing was fetched a CSV of the three expected columns and no row is
\* written over out_path, else the rows inside the court.
fetch_and_cache(fs, player_name, season, season_type, outs, t) ==
    LET out_path == csv_path_for(player_name, season, season_type)
    IN  IF resolve_player_id(player_name) = "ValueError"
        THEN [raised |-> "ValueError", path |-> out_path, fs |-> fs, calls |-> 0]
        ELSE LET df == _call_shotchart(outs)
             IN  IF df.df.none \/ Len(df.df.rows) = 0
                 THEN [raised |-> "", path |-> out_path,
                       fs |-> to_csv(fs, out_path, "short", <<>>, t),
                       calls |-> df.calls]
                 ELSE [raised |-> "", path |-> out_path,
                       fs |-> to_csv(fs, out_path, "full", CourtFilter(df.df.rows), t),
                       calls |-> df.calls]

\* ------------------------------------------------------------------ app.py
safe_name(name) ==
    CASE name = "Stephen Curry" -> "stephen_curry"
      [] name = "Nobody" -> "nobody"
      [] OTHER -> name

VARIABLES
    now,            \* wall clock, minutes
    cache,          \* data/raw: csv path -> [exists, rows, mtime]
    demoHtml,       \* outputs/html/<player_safe>.html that exist
    demoPng,        \* the PNGs of outputs/figures besides screenshot.png, by name
    genericPng,     \* outputs/figures/screenshot.png exists
    force_refresh,  \* st.session_state["force_refresh"], per session
    refresh_done,   \* players p with st.session_state["refresh_done_<p>"], per session
    refresh_err,    \* players p with st.session_state["refresh_err_<p>"], per session
    run,            \* the script run of each session
    pc,             \* where the script run stands: "idle", "loop" (between players),
                    \* "fetch" (inside the network call of get_or_fetch_shots),
                    \* "write" (inside its to_csv) or before a later look
    bg,             \* refresh_async threads inside the network call of line 169
    writing,        \* refresh_async threads inside to_csv, by the rows they hold
    marking,        \* refresh_async threads between lines 169 and 170
    tool,           \* the command-line program running beside the app
    last,           \* what the page of each session shows for the latest finished player
    unit            \* a function of src/ exercised on its own: its arguments and result

vars == <<now, cache, demoHtml, demoPng, genericPng, force_refresh, refresh_done,
          refresh_err, run, pc, bg, writing, marking, tool, last, unit>>

\* no function is being exercised on its own
NoUnit == [fn |-> "none"]

\* no command-line program is running
NoTool ==
    [pc |-> "idle", player |-> "", season |-> "", season_type |-> "", head |-> "none",
     rows |-> <<>>, next |-> "idle", rest |-> <<>>, drawn |-> TRUE]

Args == Players \X Seasons \X SeasonTypes

\* the frames a call of get_or_fetch_shots can hold when it opens its csv path
WriteRows == {CourtFilter(enhance_shot_data(f)) : f \in {DataOut, DataMixed, DataTwo, DataFlip}}
\* no thread is inside to_csv
NoWriter == [d \in WriteRows |-> 0]
\* the number of threads counted by w
Inside(w) == Cardinality({x \in WriteRows \X (1..(MaxBg + 1)) : x[2] <= w[x[1]]})
Tabs == {"charts", "compare", "predictions"}

\* The page after a rerun, before any player is shown.  branch is the arm of
\* the handler the player took, kind what was shown (a chart, a demo, a
\* warning), source the "Data source" shown with it, age its "Last updated",
\* rows the records of the chart, fetch the end of the handler's own
\* get_or_fetch_shots call, storage whether data/raw was looked at, pending
\* and refreshed the two notices under the chart (lines 284 and 286).
NoOutcome ==
    [player |-> "", branch |-> "", kind |-> "none", source |-> "none",
     data_source |-> "", age |-> AgeNone, rows |-> <<>>, fetch |-> "none",
     storage |-> FALSE, pending |-> FALSE, refreshed |-> FALSE]

\* df_with_pred of the Predictions loop (lines 384-392) before its first assignment
NoFrame == [none |-> TRUE, rows |-> <<>>]

\* A script run: the sidebar's values, the player the loop is at, and the
\* locals of the iteration that outlive a step: stale is what is_stale answered
\* at line 224, branch the arm taken, fetch the end of the iteration's own
\* get_or_fetch_shots call and res_none whether it returned None, data the
\* rows that call holds while it is inside to_csv, df_with_pred the frame the
\* Predictions loop last assigned.
NoRun ==
    [tab |-> "none", players |-> <<>>, idx |-> 0, season |-> "", season_type |-> "",
     demo_mode |-> FALSE, use_cache_only |-> FALSE, fresh_minutes |-> 0,
     show_predictions |-> TRUE, stale |-> FALSE, branch |-> "", fetch |-> "none",
     res_none |-> FALSE, data |-> <<>>, df_with_pred |-> NoFrame]

Init ==
    /\ now = 0
    /\ cache \in [Keys -> {Absent, File("full", CourtFilter(enhance_shot_data(OldData)), 0)}]
    /\ cache[csv_path_for("Nobody", "2023-24", "Regular Season")] = Absent
    /\ demoHtml \in SUBSET {safe_name("Stephen Curry")}
    /\ demoPng = {}
    /\ genericPng \in BOOLEAN
    \* outputs/ as the repository ships it or after one export
    /\ Cardinality(demoHtml) + (IF genericPng THEN 1 ELSE 0) <= 1
    /\ force_refresh = [s \in Sessions |-> FALSE]
    /\ refresh_done = [s \in Sessions |-> {}]
    /\ refresh_err = [s \in Sessions |-> {}]
    /\ run = [s \in Sessions |-> NoRun]
    /\ pc = [s \in Sessions |-> "idle"]
    /\ bg = [s \in Sessions |-> [a \in Args |-> 0]]
    /\ writing = [s \in Sessions |-> [a \in Args |-> NoWriter]]
    /\ marking = [s \in Sessions |-> [a \in Args |-> 0]]
    /\ tool = NoTool
    /\ last = [s \in Sessions |-> NoOutcome]
    /\ unit = NoUnit

CurPlayer(s) == run[s].players[run[s].idx]
CurKey(s) == csv_path_for(CurPlayer(s), run[s].season, run[s].season_type)
CurArgs(s) == <<CurPlayer(s), run[s].season, run[s].season_type>>

\* the cache-only arm forgets the missing file and goes on to the fetch
ChartsBranch_NoCacheOnlyGuard(demo_mode, use_cache_only, force, exists, stale) ==
    IF demo_mode THEN "demo"
    ELSE IF use_cache_only /\ exists THEN "cache_only"
         ELSE IF force THEN "force"
              ELSE IF exists /\ ~stale THEN "fresh"
                   ELSE IF exists THEN "stale" ELSE "absent"

\* a stale file is refetched in the foreground, like a missing one
ChartsBranch_StaleBlocks(demo_mode, use_cache_only, force, exists, stale) ==
    IF demo_mode THEN "demo"
    ELSE IF use_cache_only
         THEN IF ~exists THEN "cache_only_missing" ELSE "cache_only"
         ELSE IF force THEN "force"
              ELSE IF exists /\ ~stale THEN "fresh" ELSE "absent"

\* the if/else ladder of charts_tab, lines 221-263: the arm taken
ChartsBranch(demo_mode, use_cache_only, force, exists, stale) ==
    IF demo_mode THEN "demo"
    ELSE IF use_cache_only
         THEN IF ~exists THEN "cache_only_missing" ELSE "cache_only"
         ELSE IF force THEN "force"
              ELSE IF exists /\ ~stale THEN "fresh"
                   ELSE IF exists THEN "stale" ELSE "absent"

\* the classification the ladder makes of a csv path when no flag is set
\* (lines 223 and 241-248), from file_age_minutes and is_stale
Classify(fs, path, max_minutes, t) ==
    LET b == ChartsBranch(FALSE, FALSE, FALSE, fs[path].exists,
                          IsStaleAt(fs, path, max_minutes, t))
    IN  CASE b = "fresh" -> "FRESH"
          [] b = "stale" -> "STALE"
          [] b = "absent" -> "ABSENT"

\* line 279
SourceLabel(demo_mode, data_source) == IF ~demo_mode THEN "cache" ELSE "demo"

\* lines 257-259: the check of the file; one that is missing or has no byte
\* ends the iteration with "No data available"
Render(o, demo_mode, fs, path, t) ==
    IF ~fs[path].exists \/ StSize(fs[path]) = 0
    THEN [o EXCEPT !.kind = "no_data"]
    ELSE o

\* plot_plotly(csv_path, ...), through _load of src/plot_shot_chart.py:
\* the chart of the records read_csv finds; when it raises, the except arm of
\* the loop shows the error
Plot(o, fs, path) ==
    IF Readable(fs[path])
    THEN [o EXCEPT !.kind = "chart", !.rows = fs[path].rows]
    ELSE [o EXCEPT !.kind = "error"]

\* lines 277-280: the status row under the chart
StatusRow(o, demo_mode, fs, path, t) ==
    [o EXCEPT !.age = FileAgeAt(fs, path, t),
              !.source = SourceLabel(demo_mode, o.data_source)]

\* lines 236-240 and 250-255, then 257-274: what follows the return of
\* get_or_fetch_shots, which returned None (res_none) or the csv path; fs is
\* data/raw when the page is made
AfterFetch(o, demo_mode, res_none, fs, path, t) ==
    IF ~res_none
    THEN Render([o EXCEPT !.data_source = "Live-refreshed"], demo_mode, fs, path, t)
    ELSE IF o.branch = "absent"
         THEN [o EXCEPT !.kind = "throttled"]
         ELSE Render(o, demo_mode, fs, path, t)

\* the end of one player iteration: st.stop() ends the script run at once; the
\* end of the Charts loop reaches line 295
Advance(s, stop) ==
    IF stop
    THEN /\ run' = [run EXCEPT ![s] = NoRun]
         /\ pc' = [pc EXCEPT ![s] = "idle"]
         /\ UNCHANGED force_refresh
    ELSE IF run[s].idx = Len(run[s].players)
         THEN /\ run' = [run EXCEPT ![s] = NoRun]
              /\ pc' = [pc EXCEPT ![s] = "idle"]
              /\ force_refresh' = IF run[s].tab = "charts"
                                  THEN [force_refresh EXCEPT ![s] = FALSE]
                                  ELSE force_refresh
         ELSE /\ run' = [run EXCEPT ![s].idx = @ + 1, ![s].stale = FALSE,
                                      ![s].branch = "", ![s].fetch = "none",
                                      ![s].res_none = FALSE]
              /\ pc' = [pc EXCEPT ![s] = "loop"]
              /\ UNCHANGED force_refresh

\* the image is displayed without looking whether a placeholder could be made
ShowDemoKind_ImageAnyway(player, html, png, generic) ==
    IF safe_name(player) \in html THEN "demo_html" ELSE "demo_png"

\* show_demo, lines 108-136: the page it leaves and the figures directory
ShowDemoKind(player, html, png, generic) ==
    LET player_safe == safe_name(player)
    IN  IF player_safe \in html THEN "demo_html"
        ELSE IF player_safe \notin png /\ ~generic THEN "no_demo_asset"
             ELSE "demo_png"

ShowDemoPng(player, html, png, generic) ==
    LET player_safe == safe_name(player)
    IN  IF player_safe \notin html /\ player_safe \notin png /\ generic
        THEN png \cup {player_safe}
        ELSE png

ShowDemo(s, o) ==
    LET k == ShowDemoKind(o.player, demoHtml, demoPng, genericPng)
    IN  /\ last' = [last EXCEPT ![s] =
                      [o EXCEPT !.kind = k,
                                !.source = IF k = "no_demo_asset" THEN "none" ELSE "demo"]]
        /\ demoPng' = ShowDemoPng(o.player, demoHtml, demoPng, genericPng)
        /\ Advance(s, TRUE)

\* a click on "Force refresh" (lines 192-193): a rerun with go = False
ClickForce(s) ==
    /\ UNCHANGED <<unit, refresh_err, writing, marking, tool>>
    /\ pc[s] = "idle"
    /\ force_refresh' = [force_refresh EXCEPT ![s] = TRUE]
    /\ last' = [last EXCEPT ![s] = NoOutcome]
    /\ UNCHANGED <<now, cache, demoHtml, demoPng, genericPng, refresh_done, run, pc, bg>>

\* a click on "Generate charts" / "Generate Predictions" with the sidebar's values
Generate(s, tab, players, season, season_type, demo_mode, use_cache_only, fresh_minutes, show_predictions) ==
    /\ UNCHANGED <<unit, refresh_err, writing, marking, tool>>
    /\ pc[s] = "idle"
    \* the "Show Predictions" checkbox (line 352) matters to the Predictions tab only
    /\ tab # "predictions" => show_predictions
    \* and the "Use cache only" checkbox to the Charts and Compare tabs only
    /\ tab = "predictions" => ~use_cache_only
    /\ IF players = <<>>
       THEN /\ force_refresh' = IF tab = "charts"
                                THEN [force_refresh EXCEPT ![s] = FALSE]
                                ELSE force_refresh
            /\ UNCHANGED <<run, pc>>
       ELSE /\ run' = [run EXCEPT ![s] =
                        [tab |-> tab, players |-> players, idx |-> 1, season |-> season,
                         season_type |-> season_type, demo_mode |-> demo_mode,
                         use_cache_only |-> use_cache_only,
                         fresh_minutes |-> fresh_minutes,
                         show_predictions |-> show_predictions, stale |-> FALSE,
                         branch |-> "", fetch |-> "none", res_none |-> FALSE,
                         data |-> <<>>, df_with_pred |-> NoFrame]]
            /\ pc' = [pc EXCEPT ![s] = "loop"]
            /\ UNCHANGED force_refresh
    /\ last' = [last EXCEPT ![s] = NoOutcome]
    /\ UNCHANGED <<now, cache, demoHtml, demoPng, genericPng, refresh_done, bg>>

\* the arm of lines 234-240 and 249-255: get_or_fetch_shots is called with
\* force_refresh=True and goes on to resolve_player_id and the network call
\* (lines 221-225); what it returns is decided when they end (FetchReturn)
ChartsFetch(s, b) ==
    /\ run' = [run EXCEPT ![s].branch = b]
    /\ pc' = [pc EXCEPT ![s] = "fetch"]

\* One player of the Charts loop, lines 221-240: is_stale (line 224), the
\* demo arm, the look of the cache-only arm (line 230) and the force arm.  The
\* demo arm and the cache-only arm without file end the iteration.  Without a
\* flag, a file that is not stale exists at line 242 as it did at line 224 (no
\* writer deletes a file) and is served as it is; a stale or missing one fails
\* the test of line 242 whatever that line sees, and the iteration goes on to
\* the look of line 245 (ChartsLook).
ChartsStep(s) ==
    /\ UNCHANGED <<unit, refresh_err, writing, marking, tool>>
    /\ pc[s] = "loop"
    /\ run[s].tab = "charts"
    /\ LET stale == IsStaleAt(cache, CurKey(s), run[s].fresh_minutes, now)
           b == ChartsBranch(run[s].demo_mode, run[s].use_cache_only, force_refresh[s],
                             cache[CurKey(s)].exists, stale)
           o == [NoOutcome EXCEPT !.player = CurPlayer(s), !.branch = b,
                                  !.data_source = IF b = "demo" THEN "" ELSE "cache",
                                  !.storage = (b # "demo")]
       IN  CASE b = "demo" ->
                  /\ ShowDemo(s, o)
                  /\ UNCHANGED <<now, cache, demoHtml, genericPng, refresh_done, bg>>
             [] b = "cache_only_missing" ->
                  /\ last' = [last EXCEPT ![s] = [o EXCEPT !.kind = "no_cache"]]
                  /\ Advance(s, FALSE)
                  /\ UNCHANGED <<now, cache, demoHtml, demoPng, genericPng, refresh_done, bg>>
             [] b \in {"cache_only", "fresh"} ->
                  /\ run' = [run EXCEPT ![s].branch = b]
                  /\ pc' = [pc EXCEPT ![s] = "render"]
                  /\ UNCHANGED <<now, cache, demoHtml, demoPng, genericPng, force_refresh,
                                 refresh_done, bg, last>>
             [] b = "force" ->
                  /\ ChartsFetch(s, b)
                  /\ UNCHANGED <<now, cache, demoHtml, demoPng, genericPng,
                                 force_refresh, refresh_done, bg, last>>
             [] b \in {"stale", "absent"} ->
                  /\ run' = [run EXCEPT ![s].stale = stale]
                  /\ pc' = [pc EXCEPT ![s] = "look"]
                  /\ UNCHANGED <<now, cache, demoHtml, demoPng, genericPng, force_refresh,
                                 refresh_done, bg, last>>

\* lines 245-255 of the Charts loop, reached with stale True: the file is
\* looked for again; when it is there refresh_async starts a thread (line 247)
\* that runs beside the rest of the iteration, and the file is served as it
\* is; when it is not, get_or_fetch_shots is called
ChartsLook(s) ==
    /\ UNCHANGED <<unit, refresh_err, writing, marking, tool>>
    /\ pc[s] = "look"
    /\ LET b == ChartsBranch(run[s].demo_mode, run[s].use_cache_only, force_refresh[s],
                             cache[CurKey(s)].exists, run[s].stale)
       IN  IF b = "stale"
           THEN /\ bg[s][CurArgs(s)] + Inside(writing[s][CurArgs(s)])
                      + marking[s][CurArgs(s)] < MaxBg
                /\ bg' = [bg EXCEPT ![s][CurArgs(s)] = @ + 1]
                /\ run' = [run EXCEPT ![s].branch = b]
                /\ pc' = [pc EXCEPT ![s] = "render"]
           ELSE /\ ChartsFetch(s, "absent")
                /\ UNCHANGED bg
    /\ UNCHANGED <<now, cache, demoHtml, demoPng, genericPng, force_refresh, refresh_done,
                   last>>

\* lines 236-240, 250-255 and 257-259 of the Charts loop: the warnings, with
\* the file as it is now; a warning of lines 254 or 258 ends the iteration
\* (continue), else plot_plotly follows
ChartsRender(s) ==
    /\ UNCHANGED <<unit, refresh_err, writing, marking, tool>>
    /\ pc[s] = "render"
    /\ run[s].tab = "charts"
    /\ LET o == [NoOutcome EXCEPT !.player = CurPlayer(s), !.branch = run[s].branch,
                                  !.data_source = "cache", !.storage = TRUE,
                                  !.fetch = run[s].fetch]
           page == IF run[s].branch \in {"force", "absent"}
                   THEN AfterFetch(o, run[s].demo_mode, run[s].res_none, cache,
                                   CurKey(s), now)
                   ELSE Render(o, run[s].demo_mode, cache, CurKey(s), now)
       IN  /\ last' = [last EXCEPT ![s] = page]
           /\ IF page.kind = "none"
              THEN /\ pc' = [pc EXCEPT ![s] = "plot"]
                   /\ UNCHANGED <<run, force_refresh>>
              ELSE Advance(s, FALSE)
    /\ UNCHANGED <<now, cache, demoHtml, demoPng, genericPng, refresh_done, bg>>

\* lines 266-274 of the Charts loop: plot_plotly reads the csv path as it is
\* now; a chart goes on to the rows under it, an error ends the iteration
\* (lines 291-293)
ChartsPlot(s) ==
    /\ UNCHANGED <<unit, refresh_err, writing, marking, tool>>
    /\ pc[s] = "plot"
    /\ run[s].tab = "charts"
    /\ last' = [last EXCEPT ![s] = Plot(@, cache, CurKey(s))]
    /\ IF Readable(cache[CurKey(s)])
       THEN /\ pc' = [pc EXCEPT ![s] = "age"]
            /\ UNCHANGED <<run, force_refresh>>
       ELSE Advance(s, FALSE)
    /\ UNCHANGED <<now, cache, demoHtml, demoPng, genericPng, refresh_done, bg>>

\* lines 277-280 of the Charts loop: the age of the file as it is now, and
\* the source label
ChartsAge(s) ==
    /\ UNCHANGED <<unit, refresh_err, writing, marking, tool>>
    /\ pc[s] = "age"
    /\ last' = [last EXCEPT ![s] = StatusRow(@, run[s].demo_mode, cache, CurKey(s), now)]
    /\ pc' = [pc EXCEPT ![s] = "pending"]
    /\ UNCHANGED <<now, cache, demoHtml, demoPng, genericPng, force_refresh, refresh_done,
                   run, bg>>

\* lines 283-284 of the Charts loop: kicked_bg_refresh is True in the arm that
\* called refresh_async (line 246); the marker is read as it is now
ChartsPending(s) ==
    /\ UNCHANGED <<unit, refresh_err, writing, marking, tool>>
    /\ pc[s] = "pending"
    /\ last' = [last EXCEPT ![s].pending =
                   run[s].branch = "stale" /\ CurPlayer(s) \notin refresh_done[s]]
    /\ pc' = [pc EXCEPT ![s] = "refreshed"]
    /\ UNCHANGED <<now, cache, demoHtml, demoPng, genericPng, force_refresh, refresh_done,
                   run, bg>>

\* lines 285-288 of the Charts loop: the marker is read again, and the
\* iteration ends
ChartsRefreshed(s) ==
    /\ UNCHANGED <<unit, refresh_err, writing, marking, tool>>
    /\ pc[s] = "refreshed"
    /\ last' = [last EXCEPT ![s].refreshed = CurPlayer(s) \in refresh_done[s]]
    /\ Advance(s, FALSE)
    /\ UNCHANGED <<now, cache, demoHtml, demoPng, genericPng, refresh_done, bg>>

\* lines 326-327 of compare_tab: the demo when there is still no data, else
\* plot_plotly follows
CompareShow(s, o, fs, path) ==
    IF ~fs[path].exists \/ StSize(fs[path]) = 0
    THEN ShowDemo(s, o)
    ELSE /\ last' = [last EXCEPT ![s] = o]
         /\ pc' = [pc EXCEPT ![s] = "plot"]
         /\ UNCHANGED <<run, force_refresh, demoPng>>

\* one player of the Compare loop (lines 306-325): the look at data/raw and the
\* arm taken, up to the page (CompareRender) or to the network call of
\* get_or_fetch_shots
CompareStep(s) ==
    /\ UNCHANGED <<unit, refresh_err, writing, marking, tool>>
    /\ pc[s] = "loop"
    /\ run[s].tab = "compare"
    /\ LET e == cache[CurKey(s)]
           o == [NoOutcome EXCEPT !.player = CurPlayer(s),
                                  !.storage = ~run[s].demo_mode]
           goon(b, f) ==
               /\ run' = [run EXCEPT ![s].branch = b, ![s].fetch = f]
               /\ pc' = [pc EXCEPT ![s] = "render"]
               /\ UNCHANGED <<now, cache, demoHtml, demoPng, genericPng, force_refresh,
                              refresh_done, bg, last>>
       IN  IF run[s].demo_mode
           THEN /\ ShowDemo(s, [o EXCEPT !.branch = "compare_demo"])
                /\ UNCHANGED <<now, cache, demoHtml, genericPng, refresh_done, bg>>
           ELSE IF run[s].use_cache_only
                THEN IF ~e.exists \/ StSize(e) = 0
                     THEN /\ last' = [last EXCEPT ![s] =
                                        [o EXCEPT !.branch = "compare_cache_only_missing",
                                                  !.kind = "no_cache"]]
                          /\ Advance(s, FALSE)
                          /\ UNCHANGED <<now, cache, demoHtml, demoPng, genericPng,
                                         refresh_done, bg>>
                     ELSE goon("compare_cache_only", "none")
                ELSE IF ~e.exists \/ StSize(e) = 0
                     THEN /\ run' = [run EXCEPT ![s].branch = "compare_absent"]
                          /\ pc' = [pc EXCEPT ![s] = "fetch"]
                          /\ UNCHANGED <<now, cache, demoHtml, demoPng, genericPng,
                                         force_refresh, refresh_done, bg, last>>
                     ELSE goon("compare_cached", "none")

\* lines 326-327 of the Compare loop, with data/raw as it is now
CompareRender(s) ==
    /\ UNCHANGED <<unit, refresh_err, writing, marking, tool>>
    /\ pc[s] = "render"
    /\ run[s].tab = "compare"
    /\ CompareShow(s, [NoOutcome EXCEPT !.player = CurPlayer(s), !.storage = TRUE,
                                        !.branch = run[s].branch, !.fetch = run[s].fetch],
                   cache, CurKey(s))
    /\ UNCHANGED <<now, cache, demoHtml, genericPng, refresh_done, bg>>

\* lines 328-333 of the Compare loop: plot_plotly reads the csv path as it is
\* now; when it raises, the except arm shows "Could not render"
CompareChart(s) ==
    /\ UNCHANGED <<unit, refresh_err, writing, marking, tool>>
    /\ pc[s] = "plot"
    /\ run[s].tab = "compare"
    /\ last' = [last EXCEPT ![s] = Plot(@, cache, CurKey(s))]
    /\ Advance(s, FALSE)
    /\ UNCHANGED <<now, cache, demoHtml, demoPng, genericPng, refresh_done, bg>>

\* resolve_player_id and the network call of a blocking get_or_fetch_shots
\* end (lines 221-232).  For an unknown name or without rows the call looks
\* for the file now (lines 228, 232) and returns its path or None to the
\* handler, which goes on to the page; with rows it opens the csv path (line
\* 236) and holds the rows to write.
FetchReturn(s, nfail, fk, fin) ==
    /\ UNCHANGED <<unit, refresh_err, writing, marking, tool>>
    /\ pc[s] = "fetch"
    /\ LET g == get_or_fetch_shots(cache, CurPlayer(s), run[s].season, run[s].season_type,
                                   TRUE, Outs(nfail, fk, fin), now)
       IN  IF g.ok
           THEN /\ cache' = OpenW(cache, CurKey(s), now)
                /\ run' = [run EXCEPT ![s].data = g.fs[CurKey(s)].rows]
                /\ pc' = [pc EXCEPT ![s] = "write"]
           ELSE /\ cache' = cache
                /\ run' = [run EXCEPT ![s].fetch = "failed", ![s].res_none = g.res.none]
                /\ pc' = [pc EXCEPT ![s] = "render"]
    /\ UNCHANGED <<now, demoHtml, demoPng, genericPng, force_refresh, refresh_done, bg,
                   last>>

\* lines 236-237 of a blocking get_or_fetch_shots: the rows reach the file,
\* and the call returns the csv path to the handler
FetchWrite(s) ==
    /\ UNCHANGED <<unit, refresh_err, writing, marking, tool>>
    /\ pc[s] = "write"
    /\ cache' = FlushW(cache, CurKey(s), "full", run[s].data, now)
    /\ run' = [run EXCEPT ![s].fetch = "ok", ![s].res_none = FALSE, ![s].data = <<>>]
    /\ pc' = [pc EXCEPT ![s] = "render"]
    /\ UNCHANGED <<now, demoHtml, demoPng, genericPng, force_refresh, refresh_done, bg,
                   last>>

\* _target of refresh_async, line 169: the network call of get_or_fetch_shots
\* returns.  Without rows the call returns to the thread; with rows it opens
\* the csv path (line 236 of src/fetch_shots.py).  The call catches what the
\* fetch raises, so the except arm of _target (lines 171-172) is not reached.
BgReturn(s, a, nfail, fk, fin) ==
    /\ UNCHANGED <<unit, tool>>
    /\ bg[s][a] > 0
    /\ LET k == csv_path_for(a[1], a[2], a[3])
           g == get_or_fetch_shots(cache, a[1], a[2], a[3], TRUE, Outs(nfail, fk, fin), now)
       IN  IF g.ok
           THEN /\ cache' = OpenW(cache, k, now)
                /\ writing' = [writing EXCEPT ![s][a][g.fs[k].rows] = @ + 1]
                /\ marking' = marking
           ELSE /\ cache' = cache
                /\ writing' = writing
                /\ marking' = [marking EXCEPT ![s][a] = @ + 1]
    /\ refresh_err' = refresh_err
    /\ bg' = [bg EXCEPT ![s][a] = @ - 1]
    /\ UNCHANGED <<now, demoHtml, demoPng, genericPng, force_refresh, refresh_done, run, pc,
                   last>>

\* _target of refresh_async, line 169: the rows d of a thread reach the file
\* (lines 236-237 of src/fetch_shots.py), and get_or_fetch_shots returns
BgWrite(s, a, d) ==
    /\ UNCHANGED <<unit, refresh_err, tool>>
    /\ writing[s][a][d] > 0
    /\ cache' = FlushW(cache, csv_path_for(a[1], a[2], a[3]), "full", d, now)
    /\ writing' = [writing EXCEPT ![s][a][d] = @ - 1]
    /\ marking' = [marking EXCEPT ![s][a] = @ + 1]
    /\ UNCHANGED <<now, demoHtml, demoPng, genericPng, force_refresh, refresh_done, run, pc,
                   bg, last>>

\* _target of refresh_async, line 170: the thread sets refresh_done_<player>
\* and ends
BgMark(s, a) ==
    /\ UNCHANGED <<unit, refresh_err, writing, tool>>
    /\ marking[s][a] > 0
    /\ refresh_done' = [refresh_done EXCEPT ![s] = @ \cup {a[1]}]
    /\ marking' = [marking EXCEPT ![s][a] = @ - 1]
    /\ UNCHANGED <<now, cache, demoHtml, demoPng, genericPng, force_refresh, run, pc, bg,
                   last>>

\* the end of one player iteration of the Predictions loop; df_with_pred
\* outlives the iteration
PredictAdvance(s, df) ==
    /\ run' = IF run[s].idx = Len(run[s].players)
              THEN [run EXCEPT ![s] = NoRun]
              ELSE [run EXCEPT ![s].idx = @ + 1, ![s].df_with_pred = df]
    /\ pc' = [pc EXCEPT ![s] = IF run[s].idx = Len(run[s].players) THEN "idle" ELSE "loop"]

\* One player of the Predictions loop, lines 366-383 (a trained model is
\* available, line 340): the check of the file.  The sample arm (lines
\* 369-381) assigns sample_data, never df_with_pred: the chart of line 400 is
\* made of the frame a previous iteration left, and without one the name is
\* undefined and the except arm of line 520 shows the error; with "Show
\* Predictions" off the chart is left to plot_plotly (PredictPlot).  A file
\* with bytes is read next (PredictRead).
PredictStep(s) ==
    /\ UNCHANGED <<unit, refresh_err, writing, marking, tool>>
    /\ pc[s] = "loop"
    /\ run[s].tab = "predictions"
    /\ LET e == cache[CurKey(s)]
           o == [NoOutcome EXCEPT !.player = CurPlayer(s), !.branch = "predict",
                                  !.storage = TRUE]
           goon(page, to) ==
               /\ last' = [last EXCEPT ![s] = page]
               /\ pc' = [pc EXCEPT ![s] = to]
               /\ run' = run
           done(page) ==
               /\ last' = [last EXCEPT ![s] = page]
               /\ PredictAdvance(s, run[s].df_with_pred)
       IN  IF ~e.exists \/ StSize(e) = 0
           THEN IF ~run[s].demo_mode
                THEN done([o EXCEPT !.kind = "no_data"])
                ELSE IF ~run[s].show_predictions
                     THEN goon(o, "plot")
                     ELSE IF ~run[s].df_with_pred.none
                          THEN done([o EXCEPT !.kind = "predictions",
                                              !.rows = run[s].df_with_pred.rows])
                          ELSE done([o EXCEPT !.kind = "error"])
           ELSE goon(o, "read")
    /\ UNCHANGED <<now, cache, demoHtml, demoPng, genericPng, force_refresh, refresh_done,
                   bg>>

\* lines 386-492 of the Predictions loop: pd.read_csv reads the csv path as it
\* is now, and the predictions chart is made of the frame; when read_csv
\* raises, the except arm of line 520 shows the error.  With "Show
\* Predictions" off the chart is left to plot_plotly (PredictPlot); outside
\* demo mode the status row follows a chart (PredictStatus).
PredictRead(s) ==
    /\ UNCHANGED <<unit, refresh_err, writing, marking, tool>>
    /\ pc[s] = "read"
    /\ LET e == cache[CurKey(s)]
           df == [none |-> FALSE, rows |-> e.rows]
           goon(page, to) ==
               /\ last' = [last EXCEPT ![s] = page]
               /\ run' = [run EXCEPT ![s].df_with_pred = df]
               /\ pc' = [pc EXCEPT ![s] = to]
       IN  IF ~Readable(e)
           THEN /\ last' = [last EXCEPT ![s].kind = "error"]
                /\ PredictAdvance(s, run[s].df_with_pred)
           ELSE IF ~run[s].show_predictions
                THEN goon(last[s], "plot")
                ELSE IF run[s].demo_mode
                     THEN /\ last' = [last EXCEPT ![s].kind = "predictions",
                                                   ![s].rows = e.rows]
                          /\ PredictAdvance(s, df)
                     ELSE goon([last[s] EXCEPT !.kind = "predictions", !.rows = e.rows],
                               "status")
    /\ UNCHANGED <<now, cache, demoHtml, demoPng, genericPng, force_refresh, refresh_done,
                   bg>>

\* lines 493-496 of the Predictions loop: plot_plotly reads the csv path as
\* it is now; when it raises (a missing file, a file without a byte), the
\* except arm of line 520 shows the error
PredictPlot(s) ==
    /\ UNCHANGED <<unit, refresh_err, writing, marking, tool>>
    /\ pc[s] = "plot"
    /\ run[s].tab = "predictions"
    /\ last' = [last EXCEPT ![s] = Plot(@, cache, CurKey(s))]
    /\ IF Readable(cache[CurKey(s)]) /\ ~run[s].demo_mode
       THEN /\ pc' = [pc EXCEPT ![s] = "status"]
            /\ run' = run
       ELSE PredictAdvance(s, run[s].df_with_pred)
    /\ UNCHANGED <<now, cache, demoHtml, demoPng, genericPng, force_refresh, refresh_done,
                   bg>>

\* lines 514-518 of the Predictions loop, outside demo mode: the age of the
\* file as it is now
PredictStatus(s) ==
    /\ UNCHANGED <<unit, refresh_err, writing, marking, tool>>
    /\ pc[s] = "status"
    /\ last' = [last EXCEPT ![s].age = FileAgeAt(cache, CurKey(s), now),
                            ![s].source = "cache"]
    /\ PredictAdvance(s, run[s].df_with_pred)
    /\ UNCHANGED <<now, cache, demoHtml, demoPng, genericPng, force_refresh, refresh_done,
                   bg>>

\* ------------------------------------------- the command-line programs
\* One program at a time runs beside the app; tool.pc is where it stands:
\* "seed" inside requests.get of seed_cache_from_url, "fetch" inside the
\* network call of a get_or_fetch_shots that went past line 218, "auto_first"
\* inside the one of the first call of refresh_player_data, "auto_stale"
\* before its is_stale, "write" between the open of the csv path and the
\* bytes (head and rows are what the program holds to write, next where it
\* goes on after them), "cli_read" and "cli_plot" before the two reads of
\* src/cli.py, "compare_fetch" inside the network call of a player of
\* src/compare.py (rest are the players still to come), "compare_read"
\* before its read and "compare_plot" before its PNG; drawn tells whether
\* every frame compare_hexbin read so far has rows.
ToolAt(to, player, season, season_type) ==
    [NoTool EXCEPT !.pc = to, !.player = player, !.season = season,
                   !.season_type = season_type]

ToolKey == csv_path_for(tool.player, tool.season, tool.season_type)

\* what the URL given to seed_cache_from_url serves: a CSV this program wrote
\* earlier, with rows or without, or a text that is no table of shots
\* (shorter than a header line)
SeedTexts ==
    {[head |-> "full", rows |-> CourtFilter(enhance_shot_data(DataMixed))],
     [head |-> "full", rows |-> <<>>],
     [head |-> "other", rows |-> <<>>]}
\* the players seed_cache_from_url is run for: any name
SeedPlayers == Players

\* main of tools/seed_cache_from_url.py, lines 46-79: the test of the csv path
\* (line 71) and the start of the download
SeedCache(player, season, season_type, force) ==
    /\ UNCHANGED <<unit, refresh_err, writing, marking>>
    /\ tool.pc = "idle"
    /\ tool' = IF cache[csv_path_for(player, season, season_type)].exists /\ ~force
               THEN tool
               ELSE ToolAt("seed", player, season, season_type)
    /\ UNCHANGED <<now, cache, demoHtml, demoPng, genericPng, force_refresh, refresh_done,
                   run, pc, bg, last>>

\* the program opens its csv path to write head and rows, and goes on at next
\* once they are written
ToolOpen(head, rows, next) ==
    /\ cache' = OpenW(cache, ToolKey, now)
    /\ tool' = [tool EXCEPT !.pc = "write", !.head = head, !.rows = rows, !.next = next]

\* main of tools/seed_cache_from_url.py, lines 79-96: the download returns; a
\* failed or empty one exits, else write_text opens the csv path (line 96),
\* whatever is there by now
SeedWrite(downloaded, text) ==
    /\ UNCHANGED <<unit, refresh_err, writing, marking>>
    /\ tool.pc = "seed"
    /\ IF downloaded
       THEN ToolOpen(text.head, text.rows, "idle")
       ELSE /\ cache' = cache
            /\ tool' = NoTool
    /\ UNCHANGED <<now, demoHtml, demoPng, genericPng, force_refresh, refresh_done,
                   run, pc, bg, last>>

\* the bytes a command-line program holds reach the file it opened: the end
\* of write_text (line 96 of tools/seed_cache_from_url.py) and of to_csv
\* (lines 192, 199 and 236 of src/fetch_shots.py)
ToolWrite ==
    /\ UNCHANGED <<unit, refresh_err, writing, marking>>
    /\ tool.pc = "write"
    /\ cache' = FlushW(cache, ToolKey, tool.head, tool.rows, now)
    /\ tool' = IF tool.next = "idle" THEN NoTool
               ELSE [tool EXCEPT !.pc = tool.next, !.head = "none", !.rows = <<>>,
                                 !.next = "idle"]
    /\ UNCHANGED <<now, demoHtml, demoPng, genericPng, force_refresh, refresh_done,
                   run, pc, bg, last>>

\* get_or_fetch_shots called by a command-line program, up to its network
\* call: the early return of lines 218-219, and resolve_player_id
ToolCall(player, season, season_type, force, to) ==
    IF (~force /\ cache[csv_path_for(player, season, season_type)].exists)
       \/ resolve_player_id(player) = "ValueError"
    THEN tool
    ELSE ToolAt(to, player, season, season_type)

\* main of tools/refresh_cache.py (lines 65-76): get_or_fetch_shots with
\* force_refresh = --force
RefreshCache(player, season, season_type, force) ==
    /\ UNCHANGED <<unit, refresh_err, writing, marking>>
    /\ tool.pc = "idle"
    /\ tool' = ToolCall(player, season, season_type, force, "fetch")
    /\ UNCHANGED <<now, cache, demoHtml, demoPng, genericPng, force_refresh, refresh_done,
                   run, pc, bg, last>>

\* refresh_player_data of tools/auto_refresh.py, lines 90-97, up to the first
\* network call: without force the unforced get_or_fetch_shots (line 91), which
\* returns the path of a file that exists; with no path, the forced call
AutoRefresh(player, season, season_type, force) ==
    /\ UNCHANGED <<unit, refresh_err, writing, marking>>
    /\ tool.pc = "idle"
    /\ tool' = IF force
               THEN ToolCall(player, season, season_type, TRUE, "fetch")
               ELSE IF cache[csv_path_for(player, season, season_type)].exists
                    THEN ToolAt("auto_stale", player, season, season_type)
                    ELSE ToolCall(player, season, season_type, FALSE, "auto_first")
    /\ UNCHANGED <<now, cache, demoHtml, demoPng, genericPng, force_refresh, refresh_done,
                   run, pc, bg, last>>

\* the unforced call of refresh_player_data (line 91) returns from the
\* network: with rows it opens the csv path, writes and returns the path, and
\* is_stale follows; without rows it returns the path of a file that is there
\* by now, or None, and then the forced call of line 97 follows
AutoFirstReturn(nfail, fk, fin) ==
    /\ UNCHANGED <<unit, refresh_err, writing, marking>>
    /\ tool.pc = "auto_first"
    /\ LET g == get_or_fetch_shots(cache, tool.player, tool.season, tool.season_type,
                                   TRUE, Outs(nfail, fk, fin), now)
       IN  IF g.ok
           THEN ToolOpen("full", g.fs[ToolKey].rows, "auto_stale")
           ELSE /\ cache' = cache
                /\ tool' = [tool EXCEPT !.pc = IF g.res.none THEN "fetch" ELSE "auto_stale"]
    /\ UNCHANGED <<now, demoHtml, demoPng, genericPng, force_refresh, refresh_done,
                   run, pc, bg, last>>

\* line 92 of refresh_player_data: a file that is not stale ends the call,
\* a stale one is fetched again (line 97)
AutoStale ==
    /\ UNCHANGED <<unit, refresh_err, writing, marking>>
    /\ tool.pc = "auto_stale"
    /\ tool' = IF IsStaleAt(cache, ToolKey, auto_max_minutes, now)
               THEN [tool EXCEPT !.pc = "fetch"]
               ELSE NoTool
    /\ UNCHANGED <<now, cache, demoHtml, demoPng, genericPng, force_refresh, refresh_done,
                   run, pc, bg, last>>

\* the network call of a command-line get_or_fetch_shots returns: with rows
\* the call opens the csv path, and the program ends once they are written;
\* without rows it ends now
ToolFetchReturn(nfail, fk, fin) ==
    /\ UNCHANGED <<unit, refresh_err, writing, marking>>
    /\ tool.pc = "fetch"
    /\ LET g == get_or_fetch_shots(cache, tool.player, tool.season, tool.season_type,
                                   TRUE, Outs(nfail, fk, fin), now)
       IN  IF g.ok
           THEN ToolOpen("full", g.fs[ToolKey].rows, "idle")
           ELSE /\ cache' = cache
                /\ tool' = NoTool
    /\ UNCHANGED <<now, demoHtml, demoPng, genericPng, force_refresh, refresh_done,
                   run, pc, bg, last>>

\* the network call of fetch_and_cache, called by src/cli.py (line 32) or
\* src/compare.py (line 31) for the player of the program, returns: for an
\* unknown name it raises before anything is written and the program gives
\* the player up; else it opens the csv path to write the CSV, with or
\* without rows
ToolFetchAndCache(next, nfail, fk, fin) ==
    LET f == fetch_and_cache(cache, tool.player, tool.season, tool.season_type,
                             Outs(nfail, fk, fin), now)
    IN  IF f.raised # ""
        THEN /\ cache' = cache
             /\ tool' = NoTool
        ELSE ToolOpen(f.fs[f.path].head, f.fs[f.path].rows, next)

\* the PNG plot_hexbin writes for a player (line 76 of src/plot_shot_chart.py)
\* and the one compare_hexbin writes (line 95 of src/compare.py)
HexbinPng(player, season, season_type) == "hexbin_" \o slugify(player)
ComparePng(season, season_type) == "compare_" \o slugify(season_type)

\* plot_hexbin of a csv path: a file read_csv cannot read raises and no PNG is
\* made, a chart of a CSV with rows is taken to be drawn; what matplotlib
\* makes of a CSV without rows is left open
Plotted(fs, path) ==
    IF ~Readable(fs[path]) THEN {FALSE}
    ELSE IF Len(fs[path].rows) > 0 THEN {TRUE} ELSE BOOLEAN

\* one player of main of src/cli.py, lines 28-32: fetch_and_cache is called
CliStart(player, season, season_type) ==
    /\ UNCHANGED <<unit, refresh_err, writing, marking>>
    /\ tool.pc = "idle"
    /\ tool' = ToolAt("cli_fetch", player, season, season_type)
    /\ UNCHANGED <<now, cache, demoHtml, demoPng, genericPng, force_refresh, refresh_done,
                   run, pc, bg, last>>

\* line 32 of src/cli.py: the network call of fetch_and_cache returns
CliFetch(nfail, fk, fin) ==
    /\ UNCHANGED <<unit, refresh_err, writing, marking>>
    /\ tool.pc = "cli_fetch"
    /\ ToolFetchAndCache("cli_read", nfail, fk, fin)
    /\ UNCHANGED <<now, demoHtml, demoPng, genericPng, force_refresh, refresh_done,
                   run, pc, bg, last>>

\* line 35 of src/cli.py: the CSV is read as it is now; when read_csv raises
\* the player is given up (lines 53-54)
CliRead ==
    /\ UNCHANGED <<unit, refresh_err, writing, marking>>
    /\ tool.pc = "cli_read"
    /\ tool' = IF cache[ToolKey].exists /\ cache[ToolKey].head # "none"
               THEN [tool EXCEPT !.pc = "cli_plot"]
               ELSE NoTool
    /\ UNCHANGED <<now, cache, demoHtml, demoPng, genericPng, force_refresh, refresh_done,
                   run, pc, bg, last>>

\* lines 38-39 of src/cli.py: plot_hexbin reads the CSV as it is now and
\* saves the PNG under outputs/figures
CliPlot(plotted) ==
    /\ UNCHANGED <<unit, refresh_err, writing, marking>>
    /\ tool.pc = "cli_plot"
    /\ plotted \in Plotted(cache, ToolKey)
    /\ demoPng' = IF plotted
                  THEN demoPng \cup {HexbinPng(tool.player, tool.season, tool.season_type)}
                  ELSE demoPng
    /\ tool' = NoTool
    /\ UNCHANGED <<now, cache, demoHtml, genericPng, force_refresh, refresh_done,
                   run, pc, bg, last>>

\* main of src/compare.py (lines 117-122): compare_hexbin is called for the
\* players, and fetch_and_cache for the first of them (line 31)
CompareStart(players, season, season_type) ==
    /\ UNCHANGED <<unit, refresh_err, writing, marking>>
    /\ tool.pc = "idle"
    /\ tool' = [ToolAt("compare_fetch", Head(players), season, season_type)
                  EXCEPT !.rest = Tail(players)]
    /\ UNCHANGED <<now, cache, demoHtml, demoPng, genericPng, force_refresh, refresh_done,
                   run, pc, bg, last>>

\* compare_hexbin, line 31: the network call of fetch_and_cache returns; what
\* it raises ends compare_hexbin (lines 124-125)
CompareFetch(nfail, fk, fin) ==
    /\ UNCHANGED <<unit, refresh_err, writing, marking>>
    /\ tool.pc = "compare_fetch"
    /\ ToolFetchAndCache("compare_read", nfail, fk, fin)
    /\ UNCHANGED <<now, demoHtml, demoPng, genericPng, force_refresh, refresh_done,
                   run, pc, bg, last>>

\* compare_hexbin, lines 32-36: the CSV of the player is read as it is now;
\* what read_csv or the missing columns raise ends compare_hexbin without a
\* PNG; else the next player follows, and after the last one the figure
CompareRead ==
    /\ UNCHANGED <<unit, refresh_err, writing, marking>>
    /\ tool.pc = "compare_read"
    /\ tool' = IF ~Readable(cache[ToolKey]) THEN NoTool
               ELSE IF tool.rest = <<>>
                    THEN [tool EXCEPT !.pc = "compare_plot",
                                      !.drawn = @ /\ Len(cache[ToolKey].rows) > 0]
                    ELSE [tool EXCEPT !.pc = "compare_fetch", !.player = Head(tool.rest),
                                      !.rest = Tail(tool.rest),
                                      !.drawn = @ /\ Len(cache[ToolKey].rows) > 0]
    /\ UNCHANGED <<now, cache, demoHtml, demoPng, genericPng, force_refresh, refresh_done,
                   run, pc, bg, last>>

\* compare_hexbin, lines 43-98: the one PNG of the comparison is saved under
\* outputs/figures after all players; a figure of frames with rows is taken
\* to be drawn, what matplotlib makes of a frame without rows is left open
ComparePlot(plotted) ==
    /\ UNCHANGED <<unit, refresh_err, writing, marking>>
    /\ tool.pc = "compare_plot"
    /\ tool.drawn => plotted
    /\ demoPng' = IF plotted
                  THEN demoPng \cup {ComparePng(tool.season, tool.season_type)}
                  ELSE demoPng
    /\ tool' = NoTool
    /\ UNCHANGED <<now, cache, demoHtml, genericPng, force_refresh, refresh_done,
                   run, pc, bg, last>>

\* main of update_preview.py (lines 55-83): the most recent PNG of
\* outputs/figures, screenshot.png among them, is copied to screenshot.png
\* (copy_to_screenshot, lines 24-28); without any PNG get_most_recent_png
\* raises and nothing is copied
UpdatePreview ==
    /\ UNCHANGED <<unit, refresh_err, writing, marking, tool>>
    /\ genericPng' = (genericPng \/ demoPng # {})
    /\ UNCHANGED <<now, cache, demoHtml, demoPng, force_refresh, refresh_done,
                   run, pc, bg, last>>

Tick ==
    /\ UNCHANGED <<unit, refresh_err, writing, marking, tool>>
    /\ now < MaxTime
    /\ now' = now + 1
    /\ UNCHANGED <<cache, demoHtml, demoPng, genericPng, force_refresh, refresh_done,
                   run, pc, bg, last>>

Next ==
    \/ Tick
    \/ \E s \in Sessions : ClickForce(s)
    \/ \E s \in Sessions, tab \in Tabs, players \in PlayerLists,
          season \in Seasons, season_type \in SeasonTypes,
          demo_mode \in BOOLEAN, use_cache_only \in BOOLEAN, fresh_minutes \in FreshChoices,
          show_predictions \in BOOLEAN :
          Generate(s, tab, players, season, season_type, demo_mode, use_cache_only,
                   fresh_minutes, show_predictions)
    \/ \E s \in Sessions : ChartsStep(s)
    \/ \E s \in Sessions : ChartsLook(s)
    \/ \E s \in Sessions : ChartsRender(s)
    \/ \E s \in Sessions : ChartsPlot(s)
    \/ \E s \in Sessions : ChartsAge(s)
    \/ \E s \in Sessions : ChartsPending(s)
    \/ \E s \in Sessions : ChartsRefreshed(s)
    \/ \E s \in Sessions : CompareStep(s)
    \/ \E s \in Sessions : CompareRender(s)
    \/ \E s \in Sessions : CompareChart(s)
    \/ \E s \in Sessions : PredictStep(s)
    \/ \E s \in Sessions : PredictRead(s)
    \/ \E s \in Sessions : PredictPlot(s)
    \/ \E s \in Sessions : PredictStatus(s)
    \/ \E s \in Sessions, nfail \in FailCounts, fk \in FailKinds, fin \in Frames :
          FetchReturn(s, nfail, fk, fin)
    \/ \E s \in Sessions : FetchWrite(s)
    \/ \E s \in Sessions, a \in Args, nfail \in FailCounts, fk \in FailKinds,
          fin \in Frames : BgReturn(s, a, nfail, fk, fin)
    \/ \E s \in Sessions, a \in Args, d \in WriteRows : BgWrite(s, a, d)
    \/ \E s \in Sessions, a \in Args : BgMark(s, a)

Spec == Init /\ [][Next]_vars

\* what stats.nba.com answers a refresh with when it is reachable: a frame
\* with rows
Answers == {DataOut, DataMixed, DataTwo, DataFlip}

\* The thread of refresh_async (lines 166-174) when stats.nba.com answers: one
\* of the max_attempts attempts of its fetch returns a frame with rows.
BgSucceeds(s, a) ==
    \E nfail \in 0..(max_attempts - 1), fk \in FailKinds, fin \in Answers :
        BgReturn(s, a, nfail, fk, fin)

\* a thread of refresh_async inside to_csv goes on to write
BgWrites(s, a) == \E d \in WriteRows : BgWrite(s, a, d)

\* the program serving live Charts requests (the requests that start refreshes,
\* line 247) while stats.nba.com answers the background refreshes
NextReachable ==
    \/ Tick
    \/ \E s \in Sessions : ClickForce(s)
    \/ \E s \in Sessions, players \in PlayerLists,
          season \in Seasons, season_type \in SeasonTypes,
          use_cache_only \in BOOLEAN, fresh_minutes \in FreshChoices :
          Generate(s, "charts", players, season, season_type, FALSE, use_cache_only,
                   fresh_minutes, TRUE)
    \/ \E s \in Sessions : ChartsStep(s)
    \/ \E s \in Sessions : ChartsLook(s)
    \/ \E s \in Sessions : ChartsRender(s)
    \/ \E s \in Sessions : ChartsPlot(s)
    \/ \E s \in Sessions : ChartsAge(s)
    \/ \E s \in Sessions : ChartsPending(s)
    \/ \E s \in Sessions : ChartsRefreshed(s)
    \/ \E s \in Sessions, nfail \in FailCounts, fk \in FailKinds, fin \in Frames :
          FetchReturn(s, nfail, fk, fin)
    \/ \E s \in Sessions : FetchWrite(s)
    \/ \E s \in Sessions, a \in Args : BgSucceeds(s, a)
    \/ \E s \in Sessions, a \in Args : BgWrites(s, a)
    \/ \E s \in Sessions, a \in Args : BgMark(s, a)

\* threading.Thread(...).start() (line 174): a started thread is scheduled and
\* runs to its end; the user's clicks and the clock are under no obligation
SpecReachable ==
    /\ Init
    /\ [][NextReachable]_vars
    /\ \A s \in Sessions, a \in Args :
          /\ WF_vars(BgSucceeds(s, a))
          /\ WF_vars(BgWrites(s, a))
          /\ WF_vars(BgMark(s, a))

\* the app serving live Charts requests for one player while the command-line
\* programs that call get_or_fetch_shots (tools/refresh_cache.py,
\* tools/auto_refresh.py) run beside it
NextTools ==
    \/ Tick
    \/ \E s \in Sessions, season \in Seasons, season_type \in SeasonTypes,
          fresh_minutes \in FreshChoices :
          Generate(s, "charts", <<"Stephen Curry">>, season, season_type, FALSE, FALSE,
                   fresh_minutes, TRUE)
    \/ \E s \in Sessions : ChartsStep(s)
    \/ \E s \in Sessions : ChartsLook(s)
    \/ \E s \in Sessions : ChartsRender(s)
    \/ \E s \in Sessions : ChartsPlot(s)
    \/ \E s \in Sessions : ChartsAge(s)
    \/ \E s \in Sessions : ChartsPending(s)
    \/ \E s \in Sessions : ChartsRefreshed(s)
    \/ \E s \in Sessions, nfail \in FailCounts, fk \in FailKinds, fin \in Frames :
          FetchReturn(s, nfail, fk, fin)
    \/ \E s \in Sessions : FetchWrite(s)
    \/ \E s \in Sessions, a \in Args, nfail \in FailCounts, fk \in FailKinds,
          fin \in Frames : BgReturn(s, a, nfail, fk, fin)
    \/ \E s \in Sessions, a \in Args, d \in WriteRows : BgWrite(s, a, d)
    \/ \E s \in Sessions, a \in Args : BgMark(s, a)
    \/ ToolWrite
    \/ \E player \in Players, season \in Seasons, season_type \in SeasonTypes,
          force \in BOOLEAN : RefreshCache(player, season, season_type, force)
    \/ \E player \in Players, season \in Seasons, season_type \in SeasonTypes,
          force \in BOOLEAN : AutoRefresh(player, season, season_type, force)
    \/ \E nfail \in FailCounts, fk \in FailKinds, fin \in Frames :
          AutoFirstReturn(nfail, fk, fin)
    \/ AutoStale
    \/ \E nfail \in FailCounts, fk \in FailKinds, fin \in Frames :
          ToolFetchReturn(nfail, fk, fin)

SpecTools == Init /\ [][NextTools]_vars

\* the app showing what is on disk (Charts requests for one player, in demo
\* mode or with cache-only on) while the command-line programs that write
\* data/raw and outputs/figures without get_or_fetch_shots run beside it:
\* tools/seed_cache_from_url.py, src/cli.py, src/compare.py, update_preview.py.
\* None of them looks at the age of a file, and the clock stands still.
NextFigures ==
    \/ \E s \in Sessions, season \in Seasons, season_type \in SeasonTypes,
          demo_mode \in BOOLEAN, fresh_minutes \in FreshChoices :
          Generate(s, "charts", <<"Stephen Curry">>, season, season_type, demo_mode,
                   ~demo_mode, fresh_minutes, TRUE)
    \/ \E s \in Sessions : ChartsStep(s)
    \/ \E s \in Sessions : ChartsRender(s)
    \/ \E s \in Sessions : ChartsPlot(s)
    \/ \E s \in Sessions : ChartsAge(s)
    \/ \E s \in Sessions : ChartsPending(s)
    \/ \E s \in Sessions : ChartsRefreshed(s)
    \/ \E player \in SeedPlayers, season \in Seasons, season_type \in SeasonTypes,
          force \in BOOLEAN : SeedCache(player, season, season_type, force)
    \/ \E downloaded \in BOOLEAN, text \in SeedTexts : SeedWrite(downloaded, text)
    \/ ToolWrite
    \/ \E player \in Players, season \in Seasons, season_type \in SeasonTypes :
          CliStart(player, season, season_type)
    \/ \E nfail \in FailCounts, fk \in FailKinds, fin \in Frames : CliFetch(nfail, fk, fin)
    \/ CliRead
    \/ \E plotted \in BOOLEAN : CliPlot(plotted)
    \/ \E players \in PlayerLists \ {<<>>}, season \in Seasons, season_type \in SeasonTypes :
          CompareStart(players, season, season_type)
    \/ \E nfail \in FailCounts, fk \in FailKinds, fin \in Frames :
          CompareFetch(nfail, fk, fin)
    \/ CompareRead
    \/ \E plotted \in BOOLEAN : ComparePlot(plotted)
    \/ UpdatePreview

SpecFigures == Init /\ [][NextFigures]_vars

\* ------------------------------------------- the fetch functions on their own
\* What one attempt of ShotChartDetail can end with, and every course the
\* max_attempts attempts of one _call_shotchart can take.
Outcomes == {Raised("ReadTimeout"), Raised("ValueError"), Returned(<<>>), Returned(DataMixed)}
Courses == [1..max_attempts -> Outcomes]

\* data/raw before the call: the player's file is missing, or holds OldData
\* written at minute 0
FetchDirs ==
    {fs \in [Keys -> {Absent, File("full", CourtFilter(enhance_shot_data(OldData)), 0)}] :
        fs[csv_path_for("Nobody", "2023-24", "Regular Season")] = Absent}

\* the main program at rest while a function is exercised on its own
AppAtRest ==
    /\ now = 1
    /\ cache = [k \in Keys |-> Absent]
    /\ demoHtml = {} /\ demoPng = {} /\ genericPng = FALSE
    /\ force_refresh = [s \in Sessions |-> FALSE]
    /\ refresh_done = [s \in Sessions |-> {}]
    /\ refresh_err = [s \in Sessions |-> {}]
    /\ run = [s \in Sessions |-> NoRun]
    /\ pc = [s \in Sessions |-> "idle"]
    /\ bg = [s \in Sessions |-> [a \in Args |-> 0]]
    /\ writing = [s \in Sessions |-> [a \in Args |-> NoWriter]]
    /\ marking = [s \in Sessions |-> [a \in Args |-> 0]]
    /\ tool = NoTool
    /\ last = [s \in Sessions |-> NoOutcome]

appvars == <<now, cache, demoHtml, demoPng, genericPng, force_refresh, refresh_done,
             refresh_err, run, pc, bg, writing, marking, tool, last>>

\* a call of _call_shotchart, get_or_fetch_shots or fetch_and_cache about to be
\* made at minute 1: its arguments, data/raw and the course of the attempts
InitFetch ==
    /\ AppAtRest
    /\ \E outs \in Courses, fs \in FetchDirs, player \in Players, force \in BOOLEAN :
          \/ unit = [fn |-> "_call_shotchart", outs |-> outs, done |-> FALSE]
          \/ unit = [fn |-> "get_or_fetch_shots", player |-> player, force_refresh |-> force,
                     outs |-> outs, fs |-> fs, done |-> FALSE]
          \/ unit = [fn |-> "fetch_and_cache", player |-> player, outs |-> outs, fs |-> fs,
                     done |-> FALSE]

Call_call_shotchart ==
    /\ unit.fn = "_call_shotchart" /\ ~unit.done
    /\ unit' = [fn |-> unit.fn, outs |-> unit.outs, done |-> TRUE,
                out |-> _call_shotchart(unit.outs)]
    /\ UNCHANGED appvars

Call_get_or_fetch_shots ==
    /\ unit.fn = "get_or_fetch_shots" /\ ~unit.done
    /\ unit' = [fn |-> unit.fn, player |-> unit.player, force_refresh |-> unit.force_refresh,
                outs |-> unit.outs, fs |-> unit.fs, done |-> TRUE,
                out |-> get_or_fetch_shots(unit.fs, unit.player, "2023-24", "Regular Season",
                                           unit.force_refresh, unit.outs, now)]
    /\ UNCHANGED appvars

Call_fetch_and_cache ==
    /\ unit.fn = "fetch_and_cache" /\ ~unit.done
    /\ unit' = [fn |-> unit.fn, player |-> unit.player, outs |-> unit.outs, fs |-> unit.fs,
                done |-> TRUE,
                out |-> fetch_and_cache(unit.fs, unit.player, "2023-24", "Regular Season",
                                        unit.outs, now)]
    /\ UNCHANGED appvars

NextFetch ==
    \/ Call_call_shotchart
    \/ Call_get_or_fetch_shots
    \/ Call_fetch_and_cache

\* a call that was started runs to its end: the thread that made it is scheduled
SpecFetch == InitFetch /\ [][NextFetch]_vars /\ WF_vars(NextFetch)

\* ------------------------------------------ DataFrame.to_csv on one csv path
\* to_csv(csv_path) opens the path for writing, which empties the file, writes
\* the header line and the rows through the open handle, and closes it.  The
\* file is a sequence of bytes; each handle writes at its own byte offset.
MaxWrites == 2
Writers == {"t1", "t2"}
CsvHeader == "LOC_X,LOC_Y,SHOT_MADE_FLAG"
CsvOld == <<CsvHeader, "10,20,1">>
CsvNew == {<<CsvHeader, "-250,470,0", "0,100,1">>, <<CsvHeader, "5,5,0">>}
\* the byte of a hole left by a write past the end of the file
Nul == <<"NUL", 0>>

\* the number of bytes of a line of the file, its line feed included
ByteLen(line) ==
    CASE line = CsvHeader -> 27
      [] line = "10,20,1" -> 8
      [] line = "-250,470,0" -> 11
      [] line = "0,100,1" -> 8
      [] line = "5,5,0" -> 6

\* the bytes of a line: <<line, k>> is its k-th byte
LineBytes(line) == [k \in 1..ByteLen(line) |-> <<line, k>>]

\* the bytes of a file made of the lines
RECURSIVE FileBytes(_)
FileBytes(lines) ==
    IF lines = <<>> THEN <<>> ELSE LineBytes(Head(lines)) \o FileBytes(Tail(lines))

\* the file after bytes x are written at byte offset off: the bytes under them
\* are overwritten, the bytes after them are kept, a gap before them is a hole
PutLine(file, off, x) ==
    [i \in 1..Max(Len(file), off + Len(x)) |->
        IF i > off /\ i <= off + Len(x) THEN x[i - off]
        ELSE IF i <= Len(file) THEN file[i]
        ELSE Nul]

IdleWriter == [pc |-> "idle", data |-> <<>>, line |-> 0, pos |-> 0]

InitWrite ==
    /\ AppAtRest
    /\ unit = [fn |-> "to_csv", file |-> FileBytes(CsvOld), seen |-> FileBytes(CsvOld),
               writes |-> 0, writers |-> [w \in Writers |-> IdleWriter]]

\* open(csv_path, "w") inside to_csv, by the thread w of a refresh that fetched data
ToCsvOpen(w, data) ==
    /\ unit.fn = "to_csv"
    /\ unit.writers[w].pc = "idle"
    /\ unit.writes < MaxWrites
    /\ unit' = [unit EXCEPT !.file = <<>>, !.writes = @ + 1,
                            !.writers[w] = [pc |-> "writing", data |-> data, line |-> 0,
                                            pos |-> 0]]
    /\ UNCHANGED appvars

\* the next line goes to the file, at the offset of the handle
ToCsvWrite(w) ==
    /\ unit.fn = "to_csv"
    /\ unit.writers[w].pc = "writing"
    /\ unit.writers[w].line < Len(unit.writers[w].data)
    /\ LET i == unit.writers[w].line + 1
           x == LineBytes(unit.writers[w].data[i])
       IN  unit' = [unit EXCEPT !.file = PutLine(@, unit.writers[w].pos, x),
                                !.writers[w].line = i,
                                !.writers[w].pos = @ + Len(x)]
    /\ UNCHANGED appvars

ToCsvClose(w) ==
    /\ unit.fn = "to_csv"
    /\ unit.writers[w].pc = "writing"
    /\ unit.writers[w].line = Len(unit.writers[w].data)
    /\ unit' = [unit EXCEPT !.writers[w] = IdleWriter]
    /\ UNCHANGED appvars

\* a request reads the file: the size check of app.py and pd.read_csv of _load
ReadCsv ==
    /\ unit.fn = "to_csv"
    /\ unit' = [unit EXCEPT !.seen = unit.file]
    /\ UNCHANGED appvars

NextWrite ==
    \/ \E w \in Writers, data \in CsvNew : ToCsvOpen(w, data)
    \/ \E w \in Writers : ToCsvWrite(w)
    \/ \E w \in Writers : ToCsvClose(w)
    \/ ReadCsv

SpecWrite == InitWrite /\ [][NextWrite]_vars

\* ---------------------------------- file_age_minutes and is_stale on their own
MaxClock == 4
MaxThreshold == 3

\* data/raw with a file written at any minute of the clock, or without it
FreshDirs ==
    {[k \in Keys |-> IF k = csv_path_for("Stephen Curry", "2023-24", "Regular Season")
                     THEN e ELSE Absent] :
        e \in {Absent} \cup {File("full", CourtFilter(enhance_shot_data(OldData)), m) :
                                m \in 0..MaxClock}}

InitFresh ==
    /\ AppAtRest
    /\ \E fs \in FreshDirs, path \in Keys, max_minutes \in 0..MaxThreshold, t \in 0..MaxClock :
          unit = [fn |-> "is_stale", fs |-> fs, path |-> path, max_minutes |-> max_minutes,
                  t |-> t, done |-> FALSE]

\* file_age_minutes(path), is_stale(path, max_minutes) and the ladder's
\* classification, at time t
CallFreshness ==
    /\ unit.fn = "is_stale" /\ ~unit.done
    /\ unit' = [fn |-> unit.fn, fs |-> unit.fs, path |-> unit.path,
                max_minutes |-> unit.max_minutes, t |-> unit.t, done |-> TRUE,
                out |-> [age |-> FileAgeAt(unit.fs, unit.path, unit.t),
                         stale |-> IsStaleAt(unit.fs, unit.path, unit.max_minutes, unit.t),
                         class |-> Classify(unit.fs, unit.path, unit.max_minutes, unit.t)]]
    /\ UNCHANGED appvars

NextFresh == CallFreshness

SpecFresh == InitFresh /\ [][NextFresh]_vars

\* ------------------------------------------- csv_path_for on spelled-out text
\* Text is a sequence of characters.  slugify (python-slugify, default options)
\* on such text: lower case, every character that is not a letter, a digit or
\* "-" becomes "-", runs of "-" become one, and "-" is stripped at both ends.
MaxLen == 3
Chars == {"S", "s", " ", "-", "!"}
Texts == UNION {[1..n -> Chars] : n \in 0..MaxLen}
SeasonTexts == {<<"2", "3">>, <<" ", "2", "3">>, <<"2", "3", " ">>}
SeasonTypeTexts == {<<"S">>, <<"s">>, <<"s", " ">>}

LowerChar(c) == IF c = "S" THEN "s" ELSE c
SlugChars == {"s", "2", "3", "-"}

Dashed(cs) ==
    [i \in 1..Len(cs) |-> IF LowerChar(cs[i]) \in SlugChars THEN LowerChar(cs[i]) ELSE "-"]

RECURSIVE CollapseDashes(_)
CollapseDashes(cs) ==
    IF Len(cs) < 2 THEN cs
    ELSE IF cs[1] = "-" /\ cs[2] = "-" THEN CollapseDashes(Tail(cs))
         ELSE <<cs[1]>> \o CollapseDashes(Tail(cs))

\* str.strip("-"): every "-" at the two ends goes
RECURSIVE StripDashes(_)
StripDashes(cs) ==
    IF Len(cs) > 0 /\ cs[1] = "-" THEN StripDashes(Tail(cs))
    ELSE IF Len(cs) > 0 /\ cs[Len(cs)] = "-" THEN StripDashes(SubSeq(cs, 1, Len(cs) - 1))
         ELSE cs

slugify_text(cs) == StripDashes(CollapseDashes(Dashed(cs)))

\* season.replace(' ', '_')
ReplaceSpaces(cs) == [i \in 1..Len(cs) |-> IF cs[i] = " " THEN "_" ELSE cs[i]]

\* csv_path_for on text: it raises nothing
csv_path_for_text(player, season, season_type) ==
    [raised |-> "",
     path |-> <<"data/raw", slugify_text(player), ReplaceSpaces(season),
                slugify_text(season_type), ".csv">>]

InitKey ==
    /\ AppAtRest
    /\ \E player \in Texts, season \in SeasonTexts, season_type \in SeasonTypeTexts :
          unit = [fn |-> "csv_path_for", player |-> player, season |-> season,
                  season_type |-> season_type, done |-> FALSE]

Call_csv_path_for ==
    /\ unit.fn = "csv_path_for" /\ ~unit.done
    /\ unit' = [fn |-> unit.fn, player |-> unit.player, season |-> unit.season,
                season_type |-> unit.season_type, done |-> TRUE,
                out |-> csv_path_for_text(unit.player, unit.season, unit.season_type)]
    /\ UNCHANGED appvars

NextKey == Call_csv_path_for

SpecKey == InitKey /\ [][NextKey]_vars

\* ================================================================== claims

\* a step of session s's own script run: a handler step from between two
\* players, the second look of the Charts ladder (line 245), the return of
\* its blocking get_or_fetch_shots, the check of the file (line 257), the read
\* of plot_plotly (line 266), the status row (line 277)
HandlerStep(s) == pc[s] = "loop" /\ run'[s] # run[s]
LookStep(s) == pc[s] = "look" /\ pc'[s] # "look"
ReturnStep(s) == pc[s] \in {"fetch", "write"} /\ pc'[s] = "render"
PageStep(s) == pc[s] = "render" /\ pc'[s] # "render"
PlotStep(s) == pc[s] = "plot" /\ pc'[s] # "plot"
AgeStep(s) == pc[s] = "age" /\ pc'[s] # "age"
SessionStep(s) == pc'[s] # pc[s] \/ run'[s] # run[s]
Shown(s) == last'[s] # last[s]

\* threads inside get_or_fetch_shots for the csv path k
InFlight(k) ==
    Cardinality({s \in Sessions : pc[s] \in {"fetch", "write"} /\ CurKey(s) = k})
    + Cardinality({x \in Sessions \X Args \X (1..MaxBg) :
                     /\ csv_path_for(x[2][1], x[2][2], x[2][3]) = k
                     /\ x[3] <= bg[x[1]][x[2]] + Inside(writing[x[1]][x[2]])})

\* the answer came from the Fallback Provider: a demo artifact, or its NotFound
FromFallback(o) == o.kind \in {"demo_html", "demo_png", "no_demo_asset"}

\* C1 (as claimed): at most one upstream fetch is in flight for one cache key,
\* however many callers ask for a refresh of it.
C1_AtMostOneInFlight == \A k \in Keys : InFlight(k) <= 1

\* C2 (as claimed): a Charts request with no flag set and a stale entry does
\* not wait for the upstream, starts one background refresh unless one is
\* already pending for the key, in which case it starts none, and shows the
\* entry as source cache.  The request finds the entry stale at line 224 and
\* goes on to line 245, where the refresh is started; the entry is shown by
\* the check of line 257, the read of line 266 and the status row.
C2_StaleServeOneRefresh ==
    [][\A s \in Sessions :
        /\ (/\ HandlerStep(s) /\ run[s].tab = "charts"
            /\ ~run[s].demo_mode /\ ~run[s].use_cache_only /\ ~force_refresh[s]
            /\ cache[CurKey(s)].exists
            /\ now - cache[CurKey(s)].mtime > run[s].fresh_minutes)
           => /\ pc'[s] = "look" /\ run'[s].fetch = "none" /\ bg' = bg
        /\ (LookStep(s) /\ cache[CurKey(s)].exists)
           => /\ pc'[s] = "render" /\ run'[s].branch = "stale" /\ run'[s].fetch = "none"
              /\ IF InFlight(CurKey(s)) > 0
                 THEN bg' = bg
                 ELSE bg' = [bg EXCEPT ![s][CurArgs(s)] = 1]
        /\ (PageStep(s) /\ run[s].tab = "charts" /\ run[s].branch = "stale")
           => /\ pc'[s] = "plot"
              /\ last'[s].fetch = "none"
        /\ (PlotStep(s) /\ run[s].tab = "charts" /\ run[s].branch = "stale")
           => last'[s].kind = "chart"
        /\ (AgeStep(s) /\ run[s].branch = "stale")
           => last'[s].source = "cache"]_vars

\* C3 (as claimed): with demo mode on, whatever the cache and the other flags,
\* the answer comes from the Fallback Provider, data/raw is not looked at and
\* no fetch is made.
C3_DemoShortCircuits ==
    [][\A s \in Sessions :
        (HandlerStep(s) /\ run[s].demo_mode)
        => /\ FromFallback(last'[s]) /\ ~last'[s].storage
           /\ last'[s].fetch = "none" /\ pc'[s] # "fetch"
           /\ bg' = bg /\ cache' = cache]_vars

\* C4: cache-only with no entry (Charts and Compare): the page shows the "no
\* cache" warning, which is neither a chart nor a demo, and nothing is fetched.
C4_CacheOnlyAbsentUnavailable ==
    [][\A s \in Sessions :
        (/\ HandlerStep(s) /\ run[s].tab \in {"charts", "compare"}
         /\ ~run[s].demo_mode /\ run[s].use_cache_only
         /\ ~cache[CurKey(s)].exists)
        => /\ last'[s].kind = "no_cache"
           /\ last'[s].source \notin {"demo", "cache", "Live-refreshed"}
           /\ ~FromFallback(last'[s])
           /\ last'[s].fetch = "none" /\ pc'[s] # "fetch"
           /\ bg' = bg /\ cache' = cache]_vars

C4_Witness ==
    \E s \in Sessions :
        /\ last[s].kind = "no_cache" /\ last[s].branch = "cache_only_missing"
        /\ ~cache[csv_path_for(last[s].player, "2023-24", "Regular Season")].exists

\* C5 (as claimed): a Charts request with cache-only on (demo off) never
\* starts a blocking or a background refresh, with the force flag set or not
\* and the entry fresh or stale; an entry that exists is served: the check of
\* line 257 lets it through, the chart is drawn, and the status row says
\* source cache.
C5_CacheOnlyDominatesForce ==
    [][\A s \in Sessions :
        (/\ run[s].tab = "charts" /\ ~run[s].demo_mode /\ run[s].use_cache_only)
        => /\ SessionStep(s)
              => /\ pc'[s] # "fetch" /\ run'[s].fetch = "none"
                 /\ bg' = bg /\ cache' = cache
           /\ (HandlerStep(s) /\ cache[CurKey(s)].exists) => pc'[s] = "render"
           /\ PageStep(s) => pc'[s] = "plot"
           /\ PlotStep(s) => (last'[s].kind = "chart" /\ last'[s].fetch = "none")
           /\ AgeStep(s) => last'[s].source = "cache"]_vars

\* C6 (as claimed): a Charts request whose entry exists never waits for an
\* upstream call; one without entry, demo mode and cache-only attempts the fetch.
C6_NeverBlockedWhenCached ==
    [][\A s \in Sessions :
        /\ (HandlerStep(s) /\ run[s].tab = "charts")
           => /\ cache[CurKey(s)].exists => pc'[s] # "fetch"
              /\ (/\ ~cache[CurKey(s)].exists
                  /\ ~run[s].demo_mode /\ ~run[s].use_cache_only)
                 => (pc'[s] \in {"fetch", "look"} \/ run'[s].fetch # "none")
        /\ LookStep(s)
           => IF cache[CurKey(s)].exists
              THEN pc'[s] # "fetch"
              ELSE (pc'[s] = "fetch" \/ run'[s].fetch # "none")]_vars

\* C6 (amended): a Charts request whose entry exists does not wait for an
\* upstream call unless the force flag is set with demo mode and cache-only
\* off, and then it does wait for one; one without entry, demo mode and
\* cache-only calls get_or_fetch_shots (entity resolution, then the network
\* call when the name resolves).  Without the force flag the request that
\* found no entry at line 224 looks again at line 245, and what it does is
\* decided by what it finds there.
C6_BlockedOnlyWhenForcedOrAbsent ==
    [][\A s \in Sessions :
        /\ (HandlerStep(s) /\ run[s].tab = "charts")
           => LET forced == ~run[s].demo_mode /\ ~run[s].use_cache_only /\ force_refresh[s]
              IN  /\ (cache[CurKey(s)].exists /\ ~forced)
                     => (pc'[s] # "fetch" /\ run'[s].fetch = "none")
                  /\ forced => (pc'[s] = "fetch" \/ run'[s].fetch # "none")
                  /\ (/\ ~cache[CurKey(s)].exists /\ ~forced
                      /\ ~run[s].demo_mode /\ ~run[s].use_cache_only)
                     => pc'[s] = "look"
        /\ LookStep(s)
           => IF cache[CurKey(s)].exists
              THEN pc'[s] # "fetch" /\ run'[s].fetch = "none"
              ELSE (pc'[s] = "fetch" \/ run'[s].fetch # "none")]_vars

\* a stale entry was shown while its refresh is still running
C6_Witness ==
    \E s \in Sessions :
        /\ last[s].branch = "stale" /\ last[s].kind = "chart"
        /\ bg[s][<<last[s].player, "2023-24", "Regular Season">>] > 0

\* C7 (as claimed): when every call of the upstream fails and no entry exists,
\* a Charts request without cache-only (forced or not) ends with the demo of
\* the Fallback Provider, and a cache-only request with the "no cache" warning.
C7_DegradeChain ==
    [][\A s \in Sessions :
        (/\ run[s].tab = "charts" /\ Shown(s) /\ ~run[s].demo_mode
         /\ ~cache'[CurKey(s)].exists)
        => IF run[s].use_cache_only
           THEN last'[s].kind = "no_cache"
           ELSE (PageStep(s) /\ last'[s].fetch = "failed")
                => (last'[s].source = "demo" /\ FromFallback(last'[s]))]_vars

\* C8 (as claimed): a forced refresh of the Charts tab that fails (an error,
\* or no rows) while an entry exists shows that entry as source cache, with
\* its age, and leaves data/raw as it was: the check of line 257 lets the
\* entry through, the chart is drawn, and the status row says source cache
\* with the age of the file.  The entry is taken to be the file as the
\* request finds it at each of its steps, the reading that asks least.
C8_FailedForceServesPrior ==
    [][\A s \in Sessions :
        (/\ run[s].tab = "charts"
         /\ ~run[s].demo_mode /\ ~run[s].use_cache_only /\ force_refresh[s]
         /\ cache[CurKey(s)].exists)
        => /\ (ReturnStep(s) /\ run'[s].fetch = "failed") => cache' = cache
           /\ (PageStep(s) /\ run[s].fetch = "failed")
              => (pc'[s] = "plot" /\ cache' = cache)
           /\ (PlotStep(s) /\ run[s].fetch = "failed")
              => (last'[s].kind = "chart" /\ last'[s].fetch = "failed" /\ cache' = cache)
           /\ (AgeStep(s) /\ run[s].fetch = "failed")
              => /\ last'[s].source = "cache"
                 /\ last'[s].age = Max(0, now - cache[CurKey(s)].mtime)
                 /\ cache' = cache]_vars

\* C9 (as claimed): a blocking refresh of the Charts tab that succeeds shows
\* source live-refreshed with age 0, and the entry then exists and holds the
\* rows the upstream returned.
C9_LiveRefreshed ==
    [][\A s \in Sessions :
        (/\ run[s].tab = "charts" /\ AgeStep(s) /\ Shown(s)
         /\ last'[s].fetch = "ok")
        => /\ last'[s].source = "Live-refreshed" /\ last'[s].age = 0
           /\ cache'[CurKey(s)].exists
           /\ cache'[CurKey(s)].rows \in {enhance_shot_data(f) : f \in Frames}]_vars

\* C10 (as claimed): a Charts request with no flag set and an entry whose age
\* is within the threshold fetches nothing and starts no refresh, and shows
\* the entry as source cache with its age: the check of line 257 lets the
\* entry through, the chart is drawn, and the status row says source cache
\* with the age of the file.
C10_FreshHit ==
    [][\A s \in Sessions :
        /\ (/\ HandlerStep(s) /\ run[s].tab = "charts"
            /\ ~run[s].demo_mode /\ ~run[s].use_cache_only /\ ~force_refresh[s]
            /\ cache[CurKey(s)].exists
            /\ now - cache[CurKey(s)].mtime <= run[s].fresh_minutes)
           => /\ pc'[s] = "render" /\ run'[s].branch = "fresh" /\ run'[s].fetch = "none"
              /\ bg' = bg /\ cache' = cache
        /\ (PageStep(s) /\ run[s].tab = "charts" /\ run[s].branch = "fresh")
           => /\ pc'[s] = "plot" /\ last'[s].fetch = "none"
              /\ bg' = bg /\ cache' = cache
        /\ (PlotStep(s) /\ run[s].tab = "charts" /\ run[s].branch = "fresh")
           => /\ last'[s].kind = "chart"
              /\ bg' = bg /\ cache' = cache
        /\ (AgeStep(s) /\ run[s].branch = "fresh")
           => /\ last'[s].source = "cache"
              /\ last'[s].age = now - cache[CurKey(s)].mtime
              /\ bg' = bg /\ cache' = cache]_vars

\* C19 (as claimed): when the fetch of a background refresh fails (the file
\* keeps a write time before now), the failure shows in the refresh-error state
\* of the player, the thread does not go on to mark the refresh as done, and
\* the page and the script run of the session are left alone.
C19_BgFailureRecorded ==
    [][\A s \in Sessions, a \in Args :
        (/\ bg'[s][a] < bg[s][a]
         /\ cache' = cache /\ cache[csv_path_for(a[1], a[2], a[3])].mtime < now)
        => /\ a[1] \in refresh_err'[s]
           /\ marking'[s][a] = marking[s][a]
           /\ last' = last /\ run' = run /\ pc' = pc]_vars

\* C20: a refresh that completes successfully (a blocking one that reports
\* success, or any step that changes the file: to_csv opening the path, to_csv
\* writing the frame) leaves the csv path FRESH for the threshold 0 and every
\* threshold of the sidebar; a file never disappears and its write time never
\* goes back; and a path that is FRESH stays FRESH as long as the threshold
\* has not elapsed since the write.
C20_WriteVisibility ==
    [][\A k \in Keys, th \in {0} \cup FreshChoices :
        /\ (\/ cache'[k] # cache[k]
            \/ \E s \in Sessions : /\ ReturnStep(s) /\ CurKey(s) = k
                                   /\ run'[s].fetch = "ok")
           => (/\ Classify(cache', k, th, now') = "FRESH"
               /\ cache'[k].mtime = now')
        /\ cache[k].exists
           => (cache'[k].exists /\ cache'[k].mtime >= cache[k].mtime)
        /\ (Classify(cache, k, th, now) = "FRESH" /\ now' - cache[k].mtime <= th)
           => Classify(cache', k, th, now') = "FRESH"]_vars

\* a file written by a refresh at minute 1 was served as a fresh hit a minute later
C20_Witness ==
    \E s \in Sessions :
        /\ last[s].branch = "fresh" /\ last[s].kind = "chart" /\ last[s].age = 1
        /\ cache[csv_path_for(last[s].player, "2023-24", "Regular Season")].mtime = 1
        /\ now = 2

\* ------------------------------- the refresh status rows of the Charts tab
\* Live Charts requests for a player whose files exist, in two seasons: the
\* threads of refresh_async, the markers they leave in st.session_state and the
\* status rows under the chart (lines 282-286).
StatusSeasons == {"2022-23", "2023-24"}
StatusArgs == KnownPlayers \X StatusSeasons \X SeasonTypes
NoPage == [args |-> <<>>, pending |-> FALSE, refreshed |-> FALSE]

\* the rows under the chart of player: "Refreshing in background" (lines
\* 283-284) and "Refreshed. Click 'Generate charts' again" (lines 285-286)
StatusRows(kicked_bg_refresh, player, done) ==
    [pending |-> kicked_bg_refresh /\ player \notin done,
     refreshed |-> player \in done]

\* running: the threads of refresh_async per arguments; done: the players p
\* with refresh_done_<p> in st.session_state; finished: the arguments whose
\* refresh has ended; page: the status rows of the latest chart; at: where the
\* script run is, kicked: its kicked_bg_refresh
InitStatus ==
    /\ AppAtRest
    /\ unit = [fn |-> "refresh_status", running |-> [a \in StatusArgs |-> 0],
               done |-> {}, finished |-> {}, page |-> NoPage,
               at |-> "idle", kicked |-> FALSE]

\* "Generate charts" for the arguments a, demo mode, cache-only and force
\* refresh off: a stale file starts refresh_async (lines 244-247), and the chart
\* of the file is rendered (lines 257-280); the thread runs beside the rest of
\* the script run
ChartsRequest(a, stale) ==
    /\ unit.fn = "refresh_status"
    /\ unit.at = "idle"
    /\ stale => unit.running[a] < MaxBg
    /\ unit' = [unit EXCEPT
                  !.running = IF stale THEN [@ EXCEPT ![a] = @ + 1] ELSE @,
                  !.page = [NoPage EXCEPT !.args = a],
                  !.kicked = stale,
                  !.at = "pending"]
    /\ UNCHANGED appvars

\* lines 283-284: the marker is read as it is now
PendingRow ==
    /\ unit.fn = "refresh_status"
    /\ unit.at = "pending"
    /\ unit' = [unit EXCEPT
                  !.page.pending =
                      StatusRows(unit.kicked, unit.page.args[1], unit.done).pending,
                  !.at = "refreshed"]
    /\ UNCHANGED appvars

\* lines 285-286: the marker is read again, and the script run ends
RefreshedRow ==
    /\ unit.fn = "refresh_status"
    /\ unit.at = "refreshed"
    /\ unit' = [unit EXCEPT
                  !.page.refreshed =
                      StatusRows(unit.kicked, unit.page.args[1], unit.done).refreshed,
                  !.at = "idle"]
    /\ UNCHANGED appvars

\* _target (lines 167-172) of a thread started for the arguments a ends
RefreshThreadEnd(a) ==
    /\ unit.fn = "refresh_status"
    /\ unit.running[a] > 0
    /\ unit' = [unit EXCEPT !.running[a] = @ - 1,
                            !.done = @ \cup {a[1]},
                            !.finished = @ \cup {a}]
    /\ UNCHANGED appvars

NextStatus ==
    \/ \E a \in StatusArgs, stale \in BOOLEAN : ChartsRequest(a, stale)
    \/ PendingRow
    \/ RefreshedRow
    \/ \E a \in StatusArgs : RefreshThreadEnd(a)

SpecStatus == InitStatus /\ [][NextStatus]_vars

\* ------------------------------------------------- tools/auto_refresh.py
\* refresh_player_data (lines 71-108) at minute t; outs1 is the course of the
\* attempts of the call of line 91, should it go to the upstream, outs2 that of
\* the call of line 97.  ret is the returned bool, fs data/raw after the call,
\* fetched whether the call that decided went to the upstream, ok whether that
\* fetch brought rows.
refresh_player_data(fs, player, season, season_type, force, outs1, outs2, t) ==
    LET g1 == get_or_fetch_shots(fs, player, season, season_type, FALSE, outs1, t)
        fresh == /\ ~force
                 /\ ~g1.res.none
                 /\ ~IsStaleAt(g1.fs, g1.res.path, auto_max_minutes, t)
        g2 == get_or_fetch_shots(IF force THEN fs ELSE g1.fs, player, season, season_type,
                                 TRUE, outs2, t)
    IN  IF fresh
        THEN [ret |-> TRUE, fs |-> g1.fs, fetched |-> g1.fetched, ok |-> g1.ok]
        ELSE [ret |-> /\ ~g2.res.none
                      /\ g2.fs[g2.res.path].exists
                      /\ StSize(g2.fs[g2.res.path]) > 0,
              fs |-> g2.fs, fetched |-> TRUE, ok |-> g2.ok]

\* the (player, season, season type) combinations in the order of the three
\* nested loops of refresh_all_data (lines 136-138); one season and one season
\* type are passed
Combos(players) == [i \in 1..Len(players) |-> <<players[i], "2023-24", "Regular Season">>]

\* refresh_all_data (lines 111-151) from combination i on: the counters and
\* data/raw at the end.  courses[i] are the two courses of combination i.
RECURSIVE RefreshLoop(_, _, _, _, _, _, _)
RefreshLoop(fs, combos, i, force, courses, t, results) ==
    IF i > Len(combos)
    THEN [results |-> results, fs |-> fs]
    ELSE LET r == refresh_player_data(fs, combos[i][1], combos[i][2], combos[i][3], force,
                                      courses[i][1], courses[i][2], t)
         IN  RefreshLoop(r.fs, combos, i + 1, force, courses, t,
                         [results EXCEPT
                            !.total = @ + 1,
                            !.successful = IF r.ret THEN @ + 1 ELSE @,
                            !.failed = IF r.ret THEN @ ELSE @ + 1])

refresh_all_data(fs, players, force, courses, t) ==
    RefreshLoop(fs, Combos(players), 1, force, courses, t,
                [successful |-> 0, failed |-> 0, skipped |-> 0, total |-> 0])

\* what the upstream does during one fetch: an answer with rows at once, an
\* answer without rows, or a timeout on every attempt
AutoCourses ==
    {Outs(0, "ReadTimeout", DataMixed), Outs(0, "ReadTimeout", <<>>),
     Outs(max_attempts, "ReadTimeout", <<>>)}
\* the minute of the call: files written at minute 0 are just fresh, or stale
AutoClock == {auto_max_minutes, auto_max_minutes + 1}
MaxPlayers == 2

\* a call of refresh_player_data or refresh_all_data about to be made
InitAuto ==
    /\ AppAtRest
    /\ \E fs \in FetchDirs, force \in BOOLEAN, t \in AutoClock :
          \/ \E player \in Players, outs1 \in AutoCourses, outs2 \in AutoCourses :
                unit = [fn |-> "refresh_player_data", player |-> player, force |-> force,
                        fs |-> fs, t |-> t, outs1 |-> outs1, outs2 |-> outs2,
                        done |-> FALSE]
          \/ \E n \in 0..MaxPlayers :
             \E players \in [1..n -> Players],
                courses \in [1..n -> AutoCourses \X AutoCourses] :
                unit = [fn |-> "refresh_all_data", players |-> players, force |-> force,
                        fs |-> fs, t |-> t, courses |-> courses, done |-> FALSE]

Call_refresh_player_data ==
    /\ unit.fn = "refresh_player_data" /\ ~unit.done
    /\ unit' = [fn |-> unit.fn, player |-> unit.player, force |-> unit.force,
                fs |-> unit.fs, t |-> unit.t, outs1 |-> unit.outs1, outs2 |-> unit.outs2,
                done |-> TRUE,
                out |-> refresh_player_data(unit.fs, unit.player, "2023-24", "Regular Season",
                                            unit.force, unit.outs1, unit.outs2, unit.t)]
    /\ UNCHANGED appvars

Call_refresh_all_data ==
    /\ unit.fn = "refresh_all_data" /\ ~unit.done
    /\ unit' = [fn |-> unit.fn, players |-> unit.players, force |-> unit.force,
                fs |-> unit.fs, t |-> unit.t, courses |-> unit.courses, done |-> TRUE,
                out |-> refresh_all_data(unit.fs, unit.players, unit.force, unit.courses,
                                         unit.t)]
    /\ UNCHANGED appvars

NextAuto ==
    \/ Call_refresh_player_data
    \/ Call_refresh_all_data

SpecAuto == InitAuto /\ [][NextAuto]_vars

\* ------------------------------------------------ claims on the fetch functions
\* the attempts of a course that ended with an answer, the first of them (0 when
\* none did), and the number of retryable failures the course begins with
Answered(outs) == {a \in 1..max_attempts : outs[a].exc = ""}
FirstAnswer(outs) ==
    IF Answered(outs) = {} THEN 0
    ELSE CHOOSE a \in Answered(outs) : \A b \in Answered(outs) : a <= b
LeadingRetryable(outs) ==
    Cardinality({a \in 1..max_attempts : \A b \in 1..a : outs[b].exc \in Retryable})

\* the upstream failed on every attempt, or its first answer has no record
NothingFetched(outs) ==
    FirstAnswer(outs) = 0 \/ outs[FirstAnswer(outs)].frame = <<>>

UnitKey == csv_path_for(unit.player, "2023-24", "Regular Season")

\* C11 (as claimed): when the upstream fails or returns nothing (or the player
\* is unknown), get_or_fetch_shots and fetch_and_cache leave an entry that
\* existed before the call with the same rows and the same write time.
C11_FailedRefreshKeepsEntry ==
    (/\ unit.fn \in {"get_or_fetch_shots", "fetch_and_cache"} /\ unit.done
     /\ unit.fs[UnitKey].exists
     /\ (resolve_player_id(unit.player) = "ValueError" \/ NothingFetched(unit.outs)))
    => unit.out.fs[UnitKey] = unit.fs[UnitKey]

\* C13: one fetch makes at most max_attempts external calls; _call_shotchart
\* makes another attempt after each retryable failure while fewer than
\* max_attempts were made, returns None after max_attempts retryable failures
\* in a row, and every call that was started comes to its end.
C13_RetryBound ==
    /\ [](unit.done =>
            /\ unit.out.calls <= max_attempts
            /\ unit.fn = "_call_shotchart" =>
                 LET k == LeadingRetryable(unit.outs)
                 IN  IF k = max_attempts
                     THEN unit.out.df = NoneDf /\ unit.out.calls = max_attempts
                     ELSE unit.out.calls >= k + 1)
    /\ (~unit.done ~> unit.done)

\* five timeouts in a row: five calls were made and None came back
C13_Witness ==
    /\ unit.fn = "_call_shotchart" /\ unit.done
    /\ unit.outs = [a \in 1..max_attempts |-> Raised("ReadTimeout")]
    /\ unit.out.calls = max_attempts /\ unit.out.df = NoneDf

\* C14 (as claimed): when an attempt raises an exception that is neither a
\* timeout, a connection error nor an HTTP error, _call_shotchart returns the
\* failure at once: that attempt was its last external call.
C14_TerminalNotRetried ==
    (unit.fn = "_call_shotchart" /\ unit.done)
    => \A a \in 1..max_attempts :
          (/\ \A b \in 1..(a - 1) : unit.outs[b].exc \in Retryable
           /\ unit.outs[a].exc \notin Retryable \cup {""})
          => (unit.out.calls = a /\ unit.out.df = NoneDf)

\* C15 (as claimed): when the first answer of the upstream has no record,
\* _call_shotchart reports a success, and its result differs from the result of
\* a fetch that failed on every attempt.
C15_EmptyIsSuccess ==
    (/\ unit.fn = "_call_shotchart" /\ unit.done
     /\ FirstAnswer(unit.outs) > 0 /\ unit.outs[FirstAnswer(unit.outs)].frame = <<>>)
    => /\ ~unit.out.df.none
       /\ unit.out.df # _call_shotchart([a \in 1..max_attempts |-> Raised("ReadTimeout")]).df

\* the call went to the upstream and its first answer has records
FetchedRows ==
    /\ resolve_player_id(unit.player) # "ValueError"
    /\ ~NothingFetched(unit.outs)
    /\ (unit.fn = "fetch_and_cache" \/ unit.force_refresh \/ ~unit.fs[UnitKey].exists)

C23_NoneOnlyWithoutCache ==
    (unit.fn = "get_or_fetch_shots" /\ unit.done)
    => LET failed == /\ unit.out.fetched
                     /\ (resolve_player_id(unit.player) = "ValueError"
                         \/ NothingFetched(unit.outs))
       IN  /\ unit.out.res.none => (~unit.fs[UnitKey].exists /\ failed)
           /\ (failed /\ unit.fs[UnitKey].exists)
                 => /\ unit.out.fs = unit.fs
                    /\ unit.out.res = [none |-> FALSE, path |-> UnitKey]
           /\ ~unit.out.res.none => unit.out.fs[unit.out.res.path].exists

\* a forced fetch of a cached player failed on every attempt: the path of the
\* untouched file came back
C23_Witness ==
    /\ unit.fn = "get_or_fetch_shots" /\ unit.done
    /\ unit.force_refresh /\ unit.fs[UnitKey].exists
    /\ FirstAnswer(unit.outs) = 0
    /\ unit.out.calls = max_attempts
    /\ unit.out.res = [none |-> FALSE, path |-> UnitKey]
    /\ unit.out.fs = unit.fs

\* C24 (as claimed): get_or_fetch_shots goes to the upstream whenever the file
\* is missing, or is older than the freshness threshold (whatever threshold
\* th the age is measured with), or force_refresh is set; it returns without
\* going to the upstream only when force_refresh is off and the file exists and
\* is not stale.
C24_FetchWhenMissingStaleOrForced ==
    (unit.fn = "get_or_fetch_shots" /\ unit.done)
    => \A th \in 0..MaxThreshold :
          LET stale == IsStaleAt(unit.fs, UnitKey, th, now)
          IN  /\ (~unit.fs[UnitKey].exists \/ stale \/ unit.force_refresh)
                    => unit.out.fetched
              /\ ~unit.out.fetched
                    => (~unit.force_refresh /\ unit.fs[UnitKey].exists /\ ~stale)

\* -------------------------------------------------------- claims on the write
\* C12 (as claimed): whatever a reader of the csv path reads is a complete
\* entry, the old one or one a refresh wrote, and no two writes of the path are
\* open at the same time.
C12_AtomicOverwrite ==
    /\ unit.seen \in {FileBytes(CsvOld)} \cup {FileBytes(d) : d \in CsvNew}
    /\ Cardinality({w \in Writers : unit.writers[w].pc = "writing"}) <= 1

\* ---------------------------------------------------- claims on the freshness
\* C16: for every threshold >= 0, the classification is ABSENT exactly when the
\* file is missing (file_age_minutes is then None and is_stale True), STALE
\* exactly when the file exists and now - mtime > threshold, and FRESH exactly
\* when it exists and now - mtime <= threshold.
C16_FreshnessClassification ==
    (unit.fn = "is_stale" /\ unit.done)
    => LET e == unit.fs[unit.path]
       IN  /\ unit.out.class = "ABSENT" <=> ~e.exists
           /\ ~e.exists => (unit.out.age = AgeNone /\ unit.out.stale)
           /\ e.exists => (unit.out.stale <=> unit.t - e.mtime > unit.max_minutes)
           /\ unit.out.class = "STALE"
                <=> (e.exists /\ unit.t - e.mtime > unit.max_minutes)
           /\ unit.out.class = "FRESH"
                <=> (e.exists /\ unit.t - e.mtime <= unit.max_minutes)

\* a file exactly as old as a threshold of 2 minutes was classified FRESH
C16_Witness ==
    /\ unit.fn = "is_stale" /\ unit.done
    /\ unit.fs[unit.path].exists /\ unit.max_minutes = 2
    /\ unit.t - unit.fs[unit.path].mtime = 2
    /\ unit.out.class = "FRESH" /\ unit.out.age = 2

\* ---------------------------------------------------------- claims on the key
\* text without its surrounding blanks, and two texts that differ only in
\* letter case or surrounding blanks
RECURSIVE TrimLeft(_)
TrimLeft(cs) == IF Len(cs) > 0 /\ cs[1] = " " THEN TrimLeft(Tail(cs)) ELSE cs
RECURSIVE TrimRight(_)
TrimRight(cs) ==
    IF Len(cs) > 0 /\ cs[Len(cs)] = " " THEN TrimRight(SubSeq(cs, 1, Len(cs) - 1)) ELSE cs
Trim(cs) == TrimRight(TrimLeft(cs))
LowerText(cs) == [i \in 1..Len(cs) |-> LowerChar(cs[i])]
SameName(x, y) == LowerText(Trim(x)) = LowerText(Trim(y))

\* C17 (as claimed): player, season or season type written in another letter
\* case or with blanks around it gives the same csv path, and the slug of a
\* slug is that slug.
C17_KeyDeterministic ==
    (unit.fn = "csv_path_for" /\ unit.done)
    => /\ \A p \in Texts :
             SameName(p, unit.player)
             => csv_path_for_text(p, unit.season, unit.season_type) = unit.out
       /\ \A st \in SeasonTypeTexts :
             SameName(st, unit.season_type)
             => csv_path_for_text(unit.player, unit.season, st) = unit.out
       /\ \A se \in SeasonTexts :
             SameName(se, unit.season)
             => csv_path_for_text(unit.player, se, unit.season_type) = unit.out
       /\ slugify_text(unit.out.path[2]) = unit.out.path[2]
       /\ slugify_text(unit.out.path[4]) = unit.out.path[4]

\* C18 (as claimed): a player name that is empty once its surrounding blanks
\* are removed makes csv_path_for fail with InvalidKeyError; no path comes back.
C18_EmptyNameRejected ==
    (unit.fn = "csv_path_for" /\ unit.done /\ Trim(unit.player) = <<>>)
    => unit.out.raised = "InvalidKeyError"


\* ------------------------------------------- claims on the background refresh
\* C21 (as claimed): once a stale entry was served and a background refresh of
\* it started, stats.nba.com has answered the refresh (the thread of
\* refresh_async holds the rows d of the fetched frame that lie inside the
\* court, and has opened the csv path), and the thread is scheduled, the
\* entry of the key is eventually overwritten with the freshly fetched data:
\* a state follows in which the write of the thread is over and the file holds
\* a fetched frame as a whole, the header with the rows of one answer of
\* stats.nba.com (the rows of this thread, or those of a fetch that wrote
\* after it).  The arguments are those of a player stats.nba.com knows: no
\* file exists for another name, and line 247 starts a thread for an existing
\* file only.
C21_EventualRefresh ==
    \A s \in Sessions, a \in KnownPlayers \X Seasons \X SeasonTypes, d \in WriteRows :
        (writing[s][a][d] > 0)
            ~> LET k == csv_path_for(a[1], a[2], a[3])
               IN  /\ writing[s][a][d] = 0
                   /\ cache[k].exists
                   /\ cache[k].head = "full"
                   /\ cache[k].rows \in WriteRows

\* ------------------------------------------------------- claims on show_demo
\* the step of session s calls show_demo: the demo arm of the Charts and the
\* Compare loop (lines 262 and 308), or the arm of the Compare loop for a player
\* who is still without data when the page is made (line 327)
DemoCalled(s) ==
    /\ run[s].tab \in {"charts", "compare"}
    /\ run'[s] # run[s]
    /\ \/ pc[s] = "loop" /\ run[s].demo_mode
       \/ /\ pc[s] = "render" /\ run[s].tab = "compare"
          /\ (~cache[CurKey(s)].exists \/ StSize(cache[CurKey(s)]) = 0)

\* outputs/html/<player_safe>.html, outputs/figures/<player_safe>.png and
\* outputs/figures/screenshot.png are all missing
NoArtifact(player) ==
    /\ safe_name(player) \notin demoHtml
    /\ safe_name(player) \notin demoPng
    /\ ~genericPng

\* C25: when show_demo is called for a player who has neither a demo page nor a
\* demo image and there is no generic image, the page shows the warning that no
\* demo image was found, with no chart, no image and no data source, and the
\* script run ends; the warning is shown in no other case.
C25_MissingAssetHandled ==
    [][\A s \in Sessions :
          /\ (DemoCalled(s) /\ NoArtifact(CurPlayer(s)))
                => /\ last'[s].kind = "no_demo_asset"
                   /\ last'[s].player = CurPlayer(s)
                   /\ last'[s].source = "none" /\ last'[s].rows = <<>>
                   /\ pc'[s] = "idle"
          /\ (Shown(s) /\ last'[s].kind = "no_demo_asset")
                => (DemoCalled(s) /\ NoArtifact(CurPlayer(s)))]_vars

\* the warning is on the page, after a demo request and after a Compare request
\* whose fetch failed
C25_Witness ==
    \E s \in Sessions :
        /\ last[s].kind = "no_demo_asset"
        /\ last[s].branch = "compare_absent" /\ last[s].fetch = "failed"
        /\ NoArtifact(last[s].player)

\* C26 (as claimed): a call of show_demo leaves data/raw and the demo assets
\* (outputs/html, outputs/figures) as they were.
C26_FallbackSideEffectFree ==
    [][\A s \in Sessions :
          DemoCalled(s)
             => /\ demoHtml' = demoHtml /\ demoPng' = demoPng /\ genericPng' = genericPng
                /\ cache' = cache]_vars

\* ------------------------------------------------- claims on the Charts run
\* a call of get_or_fetch_shots, blocking, in a refresh thread or made by
\* tools/refresh_cache.py or tools/auto_refresh.py, opens the csv path k in
\* this step to write the rows d
OpensToWrite(k, d) ==
    \/ \E s \in Sessions :
          /\ pc[s] = "fetch" /\ pc'[s] = "write"
          /\ CurKey(s) = k /\ run'[s].data = d
    \/ \E s \in Sessions, a \in Args :
          /\ csv_path_for(a[1], a[2], a[3]) = k
          /\ writing'[s][a][d] > writing[s][a][d]
    \/ /\ tool.pc \in {"fetch", "auto_first"} /\ tool'.pc = "write"
       /\ ToolKey = k /\ tool'.rows = d

\* C28 (as claimed): no call of get_or_fetch_shots, blocking, in a refresh
\* thread or made by tools/refresh_cache.py or tools/auto_refresh.py, replaces
\* an entry that has records with an entry without records: a call that opens
\* for writing a csv path whose file has at least one record holds at least
\* one record to write into it.
C28_NeverReplacedByEmpty ==
    [][\A k \in Keys, d \in WriteRows :
          (OpensToWrite(k, d) /\ Len(cache[k].rows) > 0) => Len(d) > 0]_vars

\* C29 (as claimed): when a Generate charts run ends, every player of the list
\* was processed and the session's force_refresh flag is off.
C29_ForceFlagOneShot ==
    [][\A s \in Sessions :
          (run[s].tab = "charts" /\ run'[s] = NoRun)
             => /\ run[s].idx = Len(run[s].players)
                /\ ~force_refresh'[s]]_vars


\* ------------------------------------------- claims on the refresh status rows
\* the step writes the first, the second status row of a chart
PendingWritten == unit.fn = "refresh_status" /\ unit.at = "pending" /\ unit'.at # "pending"
RefreshedWritten ==
    unit.fn = "refresh_status" /\ unit.at = "refreshed" /\ unit'.at # "refreshed"

\* C27 (as claimed): the status rows of a chart speak of the chart's own cache
\* key: "Refreshed" is shown only when a refresh of the chart's player, season
\* and season type has ended, and "Refreshing in background" is shown exactly
\* when a refresh thread for them is running as the row is written.
C27_StatusPerKey ==
    [][LET a == unit.page.args
       IN  /\ PendingWritten => (unit'.page.pending <=> unit.running[a] > 0)
           /\ RefreshedWritten => (unit'.page.refreshed => a \in unit.finished)]_vars


\* --------------------------------------------- claims on tools/auto_refresh.py
\* C30 (as claimed): refresh_player_data returns True only when the file was
\* found fresh without a forced call, or a fetch of this call brought rows and
\* wrote the file at the minute of the call; it returns False whenever the
\* fetch that decided the call failed.  The counters of refresh_all_data add
\* up: successful + failed = total = the number of combinations.
C30_RefreshResultTruthful ==
    unit.done =>
       /\ unit.fn = "refresh_player_data" =>
            LET k == csv_path_for(unit.player, "2023-24", "Regular Season")
                found_fresh == /\ ~unit.force /\ unit.fs[k].exists
                               /\ ~IsStaleAt(unit.fs, k, auto_max_minutes, unit.t)
            IN  /\ unit.out.ret
                     => \/ found_fresh
                        \/ /\ unit.out.ok
                           /\ unit.out.fs[k].exists /\ unit.out.fs[k].mtime = unit.t
                /\ (unit.out.fetched /\ ~unit.out.ok) => ~unit.out.ret
       /\ unit.fn = "refresh_all_data" =>
            LET r == unit.out.results
            IN  /\ r.successful + r.failed = r.total
                /\ r.total = Len(unit.players) * Cardinality(Seasons) * Cardinality(SeasonTypes)

====
